---- MODULE Spec2Model ----
(***************************************************************************)
(* Model of the Theseus virtual memory mapper                              *)
(* (kernel/memory/src/paging/mapper.rs, kernel/memory_structs/src/lib.rs). *)
(*                                                                         *)
(* Page tables are kept as a sparse map from (table frame, index) to the   *)
(* entry stored there; an absent pair is an all-zero (unused) entry.  The  *)
(* recursive P4 address always denotes the P4 table of the address space   *)
(* that is active, so every walk starts at the frame current_p4.           *)
(***************************************************************************)
EXTENDS Integers, Sequences, FiniteSets, TLC

VARIABLES
    pte,              \* page-table memory: <<table frame, index>> -> entry
    current_p4,       \* frame of the active P4 table (get_current_p4())
    allocated_pages,  \* page allocator: the <<page size, number>> units handed out
    mapped,           \* the live MappedPages / MappedHugePages handles
    content,          \* physical memory: frame -> value written to it (absent = 0)
    faulted,          \* TRUE once an access to an unmapped page has trapped
    last              \* the last operation: its arguments, result and TLB events

vars == <<pte, current_p4, allocated_pages, mapped, content, faulted, last>>

----------------------------------------------------------------------------
(* Bounds of the model *)

\* number of 4 KiB pages the page allocator manages (page numbers 0..NumPages-1)
NumPages == 2
\* largest number of handles alive at once
MaxHandles == 2
\* number of huge pages the page allocator manages per huge page size
NumHugePages == 1
\* largest length of a module name
MaxNameLen == 4

----------------------------------------------------------------------------
(* Program constants *)

PAGE_SIZE == 4096
ENTRIES_PER_PAGE_TABLE == 512
MB_2 == 2 * 1024 * 1024
GB_1 == 1024 * 1024 * 1024

PRESENT == "PRESENT"
WRITABLE == "WRITABLE"
NO_EXECUTE == "NO_EXECUTE"
HUGE_PAGE == "HUGE_PAGE"

\* the P4 frames of the two address spaces, outside the frame allocator's area
P4Frames == {1, 2}
\* frames a caller may pass to map_allocated_pages_to (device memory)
DeviceFrames == 4 .. (3 + NumPages)
\* first frame the frame allocator hands out
FirstFrame == 16

\* "no frame" / "no table" (Option::None)
NoFrame == 0 - 1

\* the flag sets callers pass to map, map_to, map_huge, remap and deep_copy
FlagInputs ==
    { {PRESENT, NO_EXECUTE}, {WRITABLE} }

\* the 4 KiB page numbers the page allocator hands out as Pages
PageNumbers == 0 .. (NumPages - 1)

\* the page numbers the page allocator hands out as HugePages, per page size:
\* a 4 KiB huge page is one of the Pages, the 2 MiB and 1 GiB ones start at 1
\* (the addresses above the Pages)
HugeNumbers(page_size) ==
    IF page_size = PAGE_SIZE THEN PageNumbers ELSE 1 .. NumHugePages

\* the numbers of the pages of size page_size handed out as kind
Numbers(kind, page_size) ==
    IF kind = "AllocatedPages" THEN PageNumbers ELSE HugeNumbers(page_size)

PageSizes == {PAGE_SIZE, MB_2, GB_1}

----------------------------------------------------------------------------
(* memory_structs: page sizes, pages, ranges *)

\* HugePageSize::huge_page_ratio
huge_page_ratio(page_size) ==
    CASE page_size = 4096 -> 1
      [] page_size = MB_2 -> 512
      [] page_size = GB_1 -> 512 * 512
      [] OTHER -> 1

\* a page-size constructor that accepts 1 GiB whatever CPUID reports
new_without_cpuid(page_size_in_bytes, edx) ==
    IF page_size_in_bytes \in {4096, MB_2, GB_1}
    THEN [result |-> "Ok", value |-> page_size_in_bytes]
    ELSE [result |-> "Err", value |-> 0]

\* HugePageSize::new, edx the EDX register of CPUID leaf 0x80000001
HugePageSize_new(page_size_in_bytes, edx) ==
    CASE page_size_in_bytes = 4096 ->
            [result |-> "Ok", value |-> page_size_in_bytes]
      [] page_size_in_bytes = MB_2 ->
            [result |-> "Ok", value |-> page_size_in_bytes]
      [] page_size_in_bytes = GB_1 ->
            IF (edx \div (2 ^ 26)) % 2 = 1
            THEN [result |-> "Ok", value |-> page_size_in_bytes]
            ELSE [result |-> "Err", value |-> 0]
      [] OTHER -> [result |-> "Err", value |-> 0]

\* PageSize::new, edx the EDX register of CPUID leaf 0x80000001
PageSize_new(page_size_in_bytes, edx) ==
    CASE page_size_in_bytes = 4 * 1024 ->
            [result |-> "Ok", value |-> page_size_in_bytes]
      [] page_size_in_bytes = MB_2 ->
            [result |-> "Ok", value |-> page_size_in_bytes]
      [] page_size_in_bytes = GB_1 ->
            IF (edx \div (2 ^ 26)) % 2 = 1
            THEN [result |-> "Ok", value |-> page_size_in_bytes]
            ELSE [result |-> "Err", value |-> 0]
      [] OTHER -> [result |-> "Err", value |-> 0]

\* Page::p4_index .. p1_index and HugePage::p4_index .. p1_index: the 9-bit
\* fields of the 4 KiB page number (number * ratio for a huge page)
p4_index(number, page_size) ==
    ((number * huge_page_ratio(page_size)) \div (2^27)) % 512
p3_index(number, page_size) ==
    ((number * huge_page_ratio(page_size)) \div (2^18)) % 512
p2_index(number, page_size) ==
    ((number * huge_page_ratio(page_size)) \div (2^9)) % 512
p1_index(number, page_size) ==
    (number * huge_page_ratio(page_size)) % 512

\* PageRange::size_in_pages / HugePageRange::size_in_pages (inclusive range)
size_in_pages(h) == h.end + 1 - h.start

\* PageRange::size_in_bytes / HugePageRange::size_in_bytes
size_in_bytes(h) == size_in_pages(h) * h.page_size

\* FrameRange::size_in_frames
size_in_frames(fr) == fr.end + 1 - fr.start

\* PageRange::address_at_offset / HugePageRange::address_at_offset of the
\* range r (start and end page numbers, page size)
address_at_offset(r, offset) ==
    IF offset <= size_in_bytes(r)
    THEN [result |-> "Some", address |-> r.start * r.page_size + offset]
    ELSE [result |-> "None", address |-> 0]

\* the pages of a range in iteration order (RangeInclusive<Page>)
RangeSeq(start, end) == [k \in 1 .. (end + 1 - start) |-> start + k - 1]

----------------------------------------------------------------------------
(* usize: a 64-bit word as four 16-bit limbs, least significant first *)

\* the base of a limb
LimbBase == 65536
\* the number of limbs of a usize
LimbCount == 4

\* the usize with the value n, for 0 <= n < 2^31
usize(n) == << n % LimbBase, n \div LimbBase, 0, 0 >>

\* usize::MAX
USIZE_MAX == << LimbBase - 1, LimbBase - 1, LimbBase - 1, LimbBase - 1 >>

\* a number of limbs widened to n limbs
Pad(a, n) == [k \in 1 .. n |-> IF k <= Len(a) THEN a[k] ELSE 0]

\* the carry out of limb k of a + b
RECURSIVE AddCarry(_, _, _)
AddCarry(a, b, k) ==
    IF k = 0 THEN 0 ELSE (a[k] + b[k] + AddCarry(a, b, k - 1)) \div LimbBase

\* the sum of two numbers of the same number of limbs, one limb wider
WideAdd(a, b) ==
    [k \in 1 .. (Len(a) + 1) |->
        IF k <= Len(a) THEN (a[k] + b[k] + AddCarry(a, b, k - 1)) % LimbBase
        ELSE AddCarry(a, b, Len(a))]

\* the carry out of limb k of a * c, for a small factor c
RECURSIVE MulCarry(_, _, _)
MulCarry(a, c, k) ==
    IF k = 0 THEN 0 ELSE (a[k] * c + MulCarry(a, c, k - 1)) \div LimbBase

\* the product of a number with a small factor c, one limb wider
WideMul(a, c) ==
    [k \in 1 .. (Len(a) + 1) |->
        IF k <= Len(a) THEN (a[k] * c + MulCarry(a, c, k - 1)) % LimbBase
        ELSE MulCarry(a, c, Len(a))]

\* a <= b for numbers of the same number of limbs, decided from limb k down
RECURSIVE LeqFrom(_, _, _)
LeqFrom(a, b, k) ==
    IF k = 0 THEN TRUE
    ELSE IF a[k] < b[k] THEN TRUE
    ELSE IF a[k] > b[k] THEN FALSE
    ELSE LeqFrom(a, b, k - 1)

Leq(a, b) == LeqFrom(a, b, Len(a))

\* the result of a usize operation whose mathematical value is wide: the
\* low 64 bits, and whether the value did not fit (a build with overflow
\* checks panics there, a build without them goes on with the low bits)
Wrapped(wide) ==
    [value |-> SubSeq(wide, 1, LimbCount), overflow |-> wide[LimbCount + 1] # 0]

\* a + b on usize
usize_add(a, b) == Wrapped(WideAdd(a, b))

\* a * c on usize, for a small factor c
usize_mul(a, c) == Wrapped(WideMul(a, c))

\* bit k of a usize
Bit(a, k) == (a[(k \div 16) + 1] \div (2 ^ (k % 16))) % 2

\* BitField::get_bits(lo..hi): the bits lo .. hi-1 as a number, for hi - lo < 31
RECURSIVE get_bits(_, _, _)
get_bits(a, lo, hi) ==
    IF lo >= hi THEN 0 ELSE Bit(a, lo) + 2 * get_bits(a, lo + 1, hi)

\* a VirtualAddress that keeps the low 48 bits and clears the rest
new_masked(virt_addr) == << virt_addr[1], virt_addr[2], virt_addr[3], 0 >>

\* VirtualAddress::new: the address, or an error when bits 47..64 are neither
\* all zero nor all one
new(virt_addr) ==
    IF get_bits(virt_addr, 47, 64) \in {0, 131071}
    THEN [result |-> "Ok", value |-> virt_addr]
    ELSE [result |-> "Err", value |-> usize(0)]

\* VirtualAddress::new_canonical: ((virt_addr << 16) as isize >> 16) as usize
\* (the shift left drops the top limb; the arithmetic shift right fills the top
\* limb with the sign bit)
new_canonical(virt_addr) ==
    LET shl == << 0, virt_addr[1], virt_addr[2], virt_addr[3] >>
    IN  << shl[2], shl[3], shl[4],
           IF shl[4] >= LimbBase \div 2 THEN LimbBase - 1 ELSE 0 >>

\* the borrow out of limb k of a - b
RECURSIVE SubBorrow(_, _, _)
SubBorrow(a, b, k) ==
    IF k = 0 THEN 0
    ELSE IF a[k] - b[k] - SubBorrow(a, b, k - 1) < 0 THEN 1 ELSE 0

\* a - b on usize: the low 64 bits, and whether the value was negative
usize_sub(a, b) ==
    [value |-> [k \in 1 .. LimbCount |->
                   (LimbBase + a[k] - b[k] - SubBorrow(a, b, k - 1)) % LimbBase],
     overflow |-> SubBorrow(a, b, LimbCount) = 1]

\* usize::saturating_add / saturating_sub
saturating_add(a, b) ==
    IF usize_add(a, b).overflow THEN USIZE_MAX ELSE usize_add(a, b).value

saturating_sub(a, b) ==
    IF usize_sub(a, b).overflow THEN usize(0) ELSE usize_sub(a, b).value

\* an addition that saturates and keeps the sum as it is
add_without_canonical(a, rhs) == saturating_add(a, rhs)

\* impl Add<usize> / AddAssign<usize> for VirtualAddress
VirtualAddress_add(a, rhs) == new_canonical(saturating_add(a, rhs))

\* impl Sub<usize> / SubAssign<usize> for VirtualAddress
VirtualAddress_sub(a, rhs) == new_canonical(saturating_sub(a, rhs))

\* PhysicalAddress::new: the address, or an error when bits 52..64 are not zero
PhysicalAddress_new(phys_addr) ==
    IF get_bits(phys_addr, 52, 64) = 0
    THEN [result |-> "Ok", value |-> phys_addr]
    ELSE [result |-> "Err", value |-> usize(0)]

\* PhysicalAddress::new_canonical: phys_addr.set_bits(52..64, 0)
PhysicalAddress_new_canonical(phys_addr) ==
    << phys_addr[1], phys_addr[2], phys_addr[3], phys_addr[4] % 16 >>

\* impl Add<usize> / AddAssign<usize> for PhysicalAddress
PhysicalAddress_add(a, rhs) == PhysicalAddress_new_canonical(saturating_add(a, rhs))

\* impl Sub<usize> / SubAssign<usize> for PhysicalAddress
PhysicalAddress_sub(a, rhs) == PhysicalAddress_new_canonical(saturating_sub(a, rhs))

\* #[derive(Add, AddAssign)] on VirtualAddress and PhysicalAddress: the sum of
\* two addresses is the wrapped sum of the two inner usize values, self.0 +
\* rhs.0, as the address; a build with overflow checks panics when the sum
\* does not fit
derived_add(a, rhs, overflow_checks) ==
    IF overflow_checks /\ usize_add(a, rhs).overflow
    THEN [result |-> "Panic", value |-> usize(0)]
    ELSE [result |-> "Ok", value |-> usize_add(a, rhs).value]

\* #[derive(Sub, SubAssign)] on VirtualAddress and PhysicalAddress
derived_sub(a, rhs, overflow_checks) ==
    IF overflow_checks /\ usize_sub(a, rhs).overflow
    THEN [result |-> "Panic", value |-> usize(0)]
    ELSE [result |-> "Ok", value |-> usize_sub(a, rhs).value]

----------------------------------------------------------------------------
(* Page-table access layer: entries and tables *)

Unused == [frame |-> 0, flags |-> {}]

\* the entry stored at index i of the table in frame t
EntryAt(pt, t, i) == IF <<t, i>> \in DOMAIN pt THEN pt[<<t, i>>] ELSE Unused

\* Entry::is_unused: all bits zero
is_unused(e) == e = Unused

\* Entry::pointed_frame: the frame of a present entry
pointed_frame(e) == IF PRESENT \in e.flags THEN e.frame ELSE NoFrame

\* Entry::set: value = frame address | flags | PRESENT
EntrySet(pt, t, i, frame, flags) ==
    [x \in (DOMAIN pt) \cup {<<t, i>>} |->
        IF x = <<t, i>> THEN [frame |-> frame, flags |-> flags \cup {PRESENT}]
        ELSE pt[x]]

\* Entry::set_unused: all bits zero
EntrySetUnused(pt, t, i) ==
    [x \in (DOMAIN pt) \ {<<t, i>>} |-> pt[x]]

\* Table::zero: every entry of the table in frame t becomes unused
TableZero(pt, t) ==
    [x \in {y \in DOMAIN pt : y[1] # t} |-> pt[x]]

\* Table::next_table / next_table_mut: the child table of a present, non-huge entry
next_table(pt, t, i) ==
    LET e == EntryAt(pt, t, i)
    IN  IF t # NoFrame /\ PRESENT \in e.flags /\ HUGE_PAGE \notin e.flags
        THEN e.frame ELSE NoFrame

\* the frames that page-table entries refer to
FramesOf(pt) == { pt[x].frame : x \in DOMAIN pt }

\* the first block of count frames at or after frame f, in steps of
\* alignment, that contains no frame of used
RECURSIVE FirstFree(_, _, _, _)
FirstFree(used, f, count, alignment) ==
    IF \A u \in used : u < f \/ u >= f + count THEN f
    ELSE FirstFree(used, f + alignment, count, alignment)

\* FrameAllocator::allocate_alligned_frames(count, alignment): a block of
\* count frames that are not in use, whose first frame number is a multiple
\* of alignment.  Frames are interchangeable and the mapper never hands one
\* back, so the allocator is modelled by the frame it picks: the lowest block
\* of its area none of whose frames occurs in the state (used: the frames
\* that page-table entries or handles refer to or that hold data).
allocate_alligned_frames(used, count, alignment) ==
    FirstFree(used, ((FirstFrame + alignment - 1) \div alignment) * alignment,
              count, alignment)

\* FrameAllocator::allocate_frame
allocate_frame(used) == allocate_alligned_frames(used, 1, 1)

\* Table::next_table_create: the child table at index i, created (in a fresh
\* zeroed frame, entry set with the given flags) when there is none;
\* held: the frames in use that no page-table entry refers to
next_table_create(pt, held, t, i, flags) ==
    IF next_table(pt, t, i) # NoFrame
    THEN [pt |-> pt, table |-> next_table(pt, t, i)]
    ELSE LET frame == allocate_frame(FramesOf(pt) \cup held)
         IN  [pt |-> TableZero(EntrySet(pt, t, i, frame, flags), frame),
              table |-> frame]

----------------------------------------------------------------------------
(* Mapper *)

\* Mapper::from_current / Mapper::with_p4_frame: a Mapper records the P4
\* frame it was created for
with_p4_frame(p4) == [target_p4 |-> p4]
from_current(cur) == with_p4_frame(cur)

\* Mapper::p4 / p4_mut: the recursive P4 address, i.e. the P4 table of the
\* active address space, whatever target_p4 says
p4_mut(mapper, cur) == cur

\* top-level flags that are the caller's flags as they are
top_level_flags_unchanged(flags) == flags

\* the flags of P4, P3 and P2 entries: the caller's flags without NO_EXECUTE
TopLevelFlags(flags) == flags \ {NO_EXECUTE}

Event(ev, start, end) == [ev |-> ev, start |-> start, end |-> end]

\* a translate_page that walks to a P1 table only and knows no huge leaf
translate_page_small(pt, root, page) ==
    LET p3 == next_table(pt, root, p4_index(page, PAGE_SIZE))
        p2 == next_table(pt, p3, p3_index(page, PAGE_SIZE))
        p1 == next_table(pt, p2, p2_index(page, PAGE_SIZE))
    IN  [frame |-> IF p1 = NoFrame THEN NoFrame
                   ELSE pointed_frame(EntryAt(pt, p1, p1_index(page, PAGE_SIZE))),
         abort |-> FALSE]

\* Mapper::translate_page: walk to the P1 entry, else look for a huge leaf
\* at P3 (1 GiB) or P2 (2 MiB); "abort" is the failed alignment assertion
translate_page(pt, root, page) ==
    LET p3 == next_table(pt, root, p4_index(page, PAGE_SIZE))
        p2 == next_table(pt, p3, p3_index(page, PAGE_SIZE))
        p1 == next_table(pt, p2, p2_index(page, PAGE_SIZE))
        p3_entry == EntryAt(pt, p3, p3_index(page, PAGE_SIZE))
        p2_entry == EntryAt(pt, p2, p2_index(page, PAGE_SIZE))
        small == IF p1 = NoFrame THEN NoFrame
                 ELSE pointed_frame(EntryAt(pt, p1, p1_index(page, PAGE_SIZE)))
    IN  IF small # NoFrame THEN [frame |-> small, abort |-> FALSE]
        ELSE IF p3 = NoFrame THEN [frame |-> NoFrame, abort |-> FALSE]
        ELSE IF pointed_frame(p3_entry) # NoFrame /\ HUGE_PAGE \in p3_entry.flags
        THEN IF pointed_frame(p3_entry) % (ENTRIES_PER_PAGE_TABLE * ENTRIES_PER_PAGE_TABLE) # 0
             THEN [frame |-> NoFrame, abort |-> TRUE]
             ELSE [frame |-> pointed_frame(p3_entry)
                               + p2_index(page, PAGE_SIZE) * ENTRIES_PER_PAGE_TABLE
                               + p1_index(page, PAGE_SIZE),
                   abort |-> FALSE]
        ELSE IF p2 # NoFrame /\ pointed_frame(p2_entry) # NoFrame
                /\ HUGE_PAGE \in p2_entry.flags
        THEN IF pointed_frame(p2_entry) % ENTRIES_PER_PAGE_TABLE # 0
             THEN [frame |-> NoFrame, abort |-> TRUE]
             ELSE [frame |-> pointed_frame(p2_entry) + p1_index(page, PAGE_SIZE),
                   abort |-> FALSE]
        ELSE [frame |-> NoFrame, abort |-> FALSE]

\* Mapper::translate of an address given as (page number, offset in the page):
\* the physical address as (frame number, offset in the frame), or NoFrame
translate(pt, root, page, offset) ==
    LET f == translate_page(pt, root, page).frame
    IN  IF f = NoFrame THEN <<NoFrame, 0>> ELSE <<f, offset % PAGE_SIZE>>

\* table.next_table_create(i, flags, allocator) on the table that the
\* previous next_table_create returned (c: its result)
NextCreate(c, held, i, flags) == next_table_create(c.pt, held, c.table, i, flags)

\* the end of one iteration of the mapping loops: the leaf entry at index i
\* of the table reached (c) is set unless it is in use
SetLeaf(c, i, frame, flags) ==
    IF ~ is_unused(EntryAt(c.pt, c.table, i))
    THEN [pt |-> c.pt, ok |-> FALSE]
    ELSE [pt |-> EntrySet(c.pt, c.table, i, frame, flags), ok |-> TRUE]

\* one iteration of the mapping loops for a 4 KiB page: create the path of
\* tables, then set the P1 entry unless it is in use
MapOne(pt, held, root, page, frame, flags) ==
    SetLeaf(NextCreate(NextCreate(next_table_create(pt, held, root,
                                                    p4_index(page, PAGE_SIZE),
                                                    TopLevelFlags(flags)),
                                  held, p3_index(page, PAGE_SIZE), TopLevelFlags(flags)),
                       held, p2_index(page, PAGE_SIZE), TopLevelFlags(flags)),
            p1_index(page, PAGE_SIZE), frame, flags \cup {PRESENT})

\* the loop of map_allocated_pages_to over pages and frames in lockstep,
\* from the k-th pair on; MapToNext continues after the k-th pair (m: the
\* result of its iteration)
RECURSIVE MapToLoop(_, _, _, _, _, _, _)
RECURSIVE MapToNext(_, _, _, _, _, _, _)
MapToLoop(pt, held, root, pages, frames, flags, k) ==
    IF k > Len(pages) \/ k > Len(frames)
    THEN [pt |-> pt, result |-> "Ok"]
    ELSE MapToNext(MapOne(pt, held, root, pages[k], frames[k], flags),
                   held, root, pages, frames, flags, k)

MapToNext(m, held, root, pages, frames, flags, k) ==
    IF ~ m.ok
    THEN [pt |-> m.pt, result |-> "AlreadyMapped"]
    ELSE MapToLoop(m.pt, held, root, pages, frames, flags, k + 1)

\* map_allocated_pages_to without the comparison of the two counts: the
\* lockstep loop stops at the shorter of the two ranges
map_allocated_pages_to_unchecked(pt, held, root, pages, frames, flags) ==
    MapToLoop(pt, held, root, RangeSeq(pages.start, pages.end),
              RangeSeq(frames.start, frames.end), flags, 1)

\* Mapper::map_allocated_pages_to
map_allocated_pages_to(pt, held, root, pages, frames, flags) ==
    IF size_in_pages(pages) # size_in_frames(frames)
    THEN [pt |-> pt, result |-> "PageCountMismatch"]
    ELSE MapToLoop(pt, held, root, RangeSeq(pages.start, pages.end),
                   RangeSeq(frames.start, frames.end), flags, 1)

\* the loop of map_allocated_pages from the k-th page on; the allocator
\* returns None at its oom_at-th call for a page frame (0: never);
\* got: the frames handed out so far.  MapNext continues after the k-th
\* page (m: the result of its iteration, got: its frame included)
RECURSIVE MapLoop(_, _, _, _, _, _, _, _)
RECURSIVE MapNext(_, _, _, _, _, _, _, _)
RECURSIVE MapFrame(_, _, _, _, _, _, _, _, _)
MapLoop(pt, held, root, pages, flags, oom_at, k, got) ==
    IF k > Len(pages)
    THEN [pt |-> pt, result |-> "Ok", frames |-> got]
    ELSE IF k = oom_at
    THEN [pt |-> pt, result |-> "OutOfMemory", frames |-> got]
    ELSE MapFrame(allocate_frame(FramesOf(pt) \cup held),
                  pt, held, root, pages, flags, oom_at, k, got)

\* the k-th iteration once its frame was allocated
MapFrame(frame, pt, held, root, pages, flags, oom_at, k, got) ==
    MapNext(MapOne(pt, held \cup {frame}, root, pages[k], frame, flags),
            held, root, pages, flags, oom_at, k, Append(got, frame))

MapNext(m, held, root, pages, flags, oom_at, k, got) ==
    IF ~ m.ok
    THEN [pt |-> m.pt, result |-> "AlreadyMapped", frames |-> got]
    ELSE MapLoop(m.pt, held, root, pages, flags, oom_at, k + 1, got)

\* Mapper::map_allocated_pages
map_allocated_pages(pt, held, root, pages, flags, oom_at) ==
    MapLoop(pt, held, root, RangeSeq(pages.start, pages.end), flags, oom_at, 1, <<>>)

\* one iteration of the loop of map_allocated_huge_pages, after the frame
\* block was allocated: the branch is chosen by comparing huge_page_ratio()
\* with 1, 9 and 18
MapHugeOne(pt, held, root, page, page_size, frame, flags) ==
    IF huge_page_ratio(page_size) = 1
    THEN SetLeaf(NextCreate(NextCreate(next_table_create(pt, held, root,
                                                         p4_index(page, page_size),
                                                         TopLevelFlags(flags)),
                                       held, p3_index(page, page_size),
                                       TopLevelFlags(flags)),
                            held, p2_index(page, page_size), TopLevelFlags(flags)),
                 p1_index(page, page_size), frame, flags \cup {PRESENT})
    ELSE IF huge_page_ratio(page_size) = 9
    THEN SetLeaf(NextCreate(next_table_create(pt, held, root,
                                              p4_index(page, page_size),
                                              TopLevelFlags(flags)),
                            held, p3_index(page, page_size), TopLevelFlags(flags)),
                 p2_index(page, page_size), frame, flags \cup {PRESENT, HUGE_PAGE})
    ELSE IF huge_page_ratio(page_size) = 18
    THEN SetLeaf(next_table_create(pt, held, root, p4_index(page, page_size),
                                   TopLevelFlags(flags)),
                 p3_index(page, page_size), frame, flags \cup {PRESENT, HUGE_PAGE})
    ELSE [pt |-> pt, ok |-> TRUE]

\* the loop of map_allocated_huge_pages from the k-th huge page on;
\* MapHugeFrame: the k-th iteration once its frame block was allocated;
\* MapHugeNext continues after it (m: the result of the iteration)
RECURSIVE MapHugeLoop(_, _, _, _, _, _, _, _, _)
RECURSIVE MapHugeFrame(_, _, _, _, _, _, _, _, _, _)
RECURSIVE MapHugeNext(_, _, _, _, _, _, _, _, _)
MapHugeLoop(pt, held, root, pages, page_size, flags, oom_at, k, got) ==
    IF k > Len(pages)
    THEN [pt |-> pt, result |-> "Ok", frames |-> got]
    ELSE IF k = oom_at
    THEN [pt |-> pt, result |-> "OutOfMemory", frames |-> got]
    ELSE MapHugeFrame(allocate_alligned_frames(FramesOf(pt) \cup held,
                                               huge_page_ratio(page_size),
                                               huge_page_ratio(page_size)),
                      pt, held, root, pages, page_size, flags, oom_at, k, got)

MapHugeFrame(frame, pt, held, root, pages, page_size, flags, oom_at, k, got) ==
    MapHugeNext(MapHugeOne(pt, held \cup {frame}, root, pages[k], page_size,
                           frame, flags),
                held \cup {frame}, root, pages, page_size, flags, oom_at, k,
                Append(got, frame))

MapHugeNext(m, held, root, pages, page_size, flags, oom_at, k, got) ==
    IF ~ m.ok
    THEN [pt |-> m.pt, result |-> "AlreadyMapped", frames |-> got]
    ELSE MapHugeLoop(m.pt, held, root, pages, page_size, flags, oom_at, k + 1, got)

\* Mapper::map_allocated_huge_pages
map_allocated_huge_pages(pt, held, root, pages, flags, oom_at) ==
    MapHugeLoop(pt, held, root, RangeSeq(pages.start, pages.end), pages.page_size,
                flags, oom_at, 1, <<>>)

----------------------------------------------------------------------------
(* MappedPages and MappedHugePages *)

\* a handle: the P4 frame it was mapped into, its pages and its flags.  The
\* field frames (the frames that were mapped, one per page) is a record of
\* the handle's history; no operation reads it.
Handle(kind, p4, start, end, page_size, flags, frames) ==
    [kind |-> kind, page_table_p4 |-> p4, start |-> start, end |-> end,
     page_size |-> page_size, flags |-> flags, frames |-> frames]

NoHandle == Handle("none", 0, 1, 0, PAGE_SIZE, {}, <<>>)

\* EntryFlags::is_writable / is_executable
is_writable(flags) == WRITABLE \in flags
is_executable(flags) == NO_EXECUTE \notin flags

\* BROADCAST_TLB_SHOOTDOWN_FUNC.try(): the shootdown callback is registered
ShootdownRegistered == TRUE

\* AllocatedPages::merge: the second range must start right after the first
allocated_pages_merge_ok(self, ap) == ap.start = self.end + 1

\* merge that forgets mp without taking over its pages
merge_keeps_range(self, mp) ==
    IF mp.page_table_p4 # self.page_table_p4
    THEN [result |-> "MergeDifferentTable", self |-> self, mp |-> mp]
    ELSE IF mp.flags # self.flags
    THEN [result |-> "MergeDifferentFlags", self |-> self, mp |-> mp]
    ELSE IF ~ allocated_pages_merge_ok(self, mp)
    THEN [result |-> "MergeNotContiguous", self |-> self, mp |-> mp]
    ELSE [result |-> "Ok", self |-> self, mp |-> NoHandle]

\* merge that compares the flags before the page tables
merge_flags_first(self, mp) ==
    IF mp.flags # self.flags
    THEN [result |-> "MergeDifferentFlags", self |-> self, mp |-> mp]
    ELSE IF mp.page_table_p4 # self.page_table_p4
    THEN [result |-> "MergeDifferentTable", self |-> self, mp |-> mp]
    ELSE IF ~ allocated_pages_merge_ok(self, mp)
    THEN [result |-> "MergeNotContiguous", self |-> self, mp |-> mp]
    ELSE [result |-> "Ok",
          self |-> [self EXCEPT !.end = mp.end, !.frames = self.frames \o mp.frames],
          mp |-> NoHandle]

\* MappedPages::merge: the outcome and the two handles afterwards
merge(self, mp) ==
    IF mp.page_table_p4 # self.page_table_p4
    THEN [result |-> "MergeDifferentTable", self |-> self, mp |-> mp]
    ELSE IF mp.flags # self.flags
    THEN [result |-> "MergeDifferentFlags", self |-> self, mp |-> mp]
    ELSE IF ~ allocated_pages_merge_ok(self, mp)
    THEN [result |-> "MergeNotContiguous", self |-> self, mp |-> mp]
    ELSE [result |-> "Ok",
          self |-> [self EXCEPT !.end = mp.end, !.frames = self.frames \o mp.frames],
          mp |-> NoHandle]

\* the walk of MappedPages::remap / unmap to the P1 table of a page
WalkToP1(pt, root, page) ==
    next_table(pt, next_table(pt, next_table(pt, root, p4_index(page, PAGE_SIZE)),
                              p3_index(page, PAGE_SIZE)),
               p2_index(page, PAGE_SIZE))

\* the loop of MappedPages::remap from the k-th page on
RECURSIVE RemapLoop(_, _, _, _, _, _)
RECURSIVE RemapAt(_, _, _, _, _, _, _)
RemapLoop(pt, root, pages, new_flags, k, events) ==
    IF k > Len(pages) THEN [pt |-> pt, result |-> "Ok", events |-> events]
    ELSE RemapAt(WalkToP1(pt, root, pages[k]), pt, root, pages, new_flags, k, events)

\* the k-th iteration of the loop of remap, p1: the P1 table its walk reached
RemapAt(p1, pt, root, pages, new_flags, k, events) ==
    IF p1 = NoFrame
    THEN [pt |-> pt, result |-> "NoTable", events |-> events]
    ELSE IF pointed_frame(EntryAt(pt, p1, p1_index(pages[k], PAGE_SIZE))) = NoFrame
    THEN [pt |-> pt, result |-> "NotMapped", events |-> events]
    ELSE RemapLoop(EntrySet(pt, p1, p1_index(pages[k], PAGE_SIZE),
                            pointed_frame(EntryAt(pt, p1, p1_index(pages[k], PAGE_SIZE))),
                            new_flags \cup {PRESENT}),
                   root, pages, new_flags, k + 1,
                   events \o << Event("store", pages[k], pages[k]),
                                Event("invlpg", pages[k], pages[k]) >>)

\* remap that does not record the new flags in the handle
remap_stale_flags(pt, root, h, new_flags) ==
    IF size_in_pages(h) = 0
    THEN [pt |-> pt, result |-> "Ok", h |-> h, events |-> <<>>]
    ELSE IF new_flags = h.flags
    THEN [pt |-> pt, result |-> "Ok", h |-> h, events |-> <<>>]
    ELSE LET r == RemapLoop(pt, root, RangeSeq(h.start, h.end), new_flags, 1, <<>>)
         IN  IF r.result # "Ok"
             THEN [pt |-> r.pt, result |-> r.result, h |-> h, events |-> r.events]
             ELSE [pt |-> r.pt, result |-> "Ok", h |-> h,
                   events |-> Append(r.events, Event("shootdown", h.start, h.end))]

\* remap without the early return for unchanged flags
remap_always(pt, root, h, new_flags) ==
    IF size_in_pages(h) = 0
    THEN [pt |-> pt, result |-> "Ok", h |-> h, events |-> <<>>]
    ELSE LET r == RemapLoop(pt, root, RangeSeq(h.start, h.end), new_flags, 1, <<>>)
         IN  IF r.result # "Ok"
             THEN [pt |-> r.pt, result |-> r.result, h |-> h, events |-> r.events]
             ELSE [pt |-> r.pt, result |-> "Ok", h |-> [h EXCEPT !.flags = new_flags],
                   events |-> Append(r.events, Event("shootdown", h.start, h.end))]

\* the end of MappedPages::remap, after its loop (r: the result of the loop):
\* the TLB shootdown and the update of self.flags
RemapTail(r, h, new_flags) ==
    IF r.result # "Ok"
    THEN [pt |-> r.pt, result |-> r.result, h |-> h, events |-> r.events]
    ELSE [pt |-> r.pt, result |-> "Ok", h |-> [h EXCEPT !.flags = new_flags],
          events |-> IF ShootdownRegistered
                     THEN Append(r.events, Event("shootdown", h.start, h.end))
                     ELSE r.events]

\* MappedPages::remap: the page table, the handle and the TLB events afterwards
remap(pt, root, h, new_flags) ==
    IF size_in_pages(h) = 0
    THEN [pt |-> pt, result |-> "Ok", h |-> h, events |-> <<>>]
    ELSE IF new_flags = h.flags
    THEN [pt |-> pt, result |-> "Ok", h |-> h, events |-> <<>>]
    ELSE RemapTail(RemapLoop(pt, root, RangeSeq(h.start, h.end), new_flags, 1, <<>>),
                   h, new_flags)

\* the loop of MappedPages::unmap from the k-th page on
RECURSIVE UnmapLoop(_, _, _, _, _)
RECURSIVE UnmapAt(_, _, _, _, _, _)
UnmapLoop(pt, root, pages, k, events) ==
    IF k > Len(pages) THEN [pt |-> pt, result |-> "Ok", events |-> events]
    ELSE UnmapAt(WalkToP1(pt, root, pages[k]), pt, root, pages, k, events)

\* the k-th iteration of the loop of unmap, p1: the P1 table its walk reached
UnmapAt(p1, pt, root, pages, k, events) ==
    IF p1 = NoFrame
    THEN [pt |-> pt, result |-> "NoTable", events |-> events]
    ELSE IF pointed_frame(EntryAt(pt, p1, p1_index(pages[k], PAGE_SIZE))) = NoFrame
    THEN [pt |-> pt, result |-> "NotMapped", events |-> events]
    ELSE UnmapLoop(EntrySetUnused(pt, p1, p1_index(pages[k], PAGE_SIZE)),
                   root, pages, k + 1,
                   events \o << Event("store", pages[k], pages[k]),
                                Event("invlpg", pages[k], pages[k]) >>)

\* unmap that flushes the TLB but leaves the P1 entries as they are
unmap_keeps_entries(pt, root, h) ==
    IF size_in_pages(h) = 0
    THEN [pt |-> pt, result |-> "Ok", events |-> <<>>]
    ELSE [pt |-> pt, result |-> "Ok",
          events |-> [k \in 1 .. size_in_pages(h) |->
                         Event("invlpg", h.start + k - 1, h.start + k - 1)]]

\* the end of MappedPages::unmap, after its loop (r: the result of the loop):
\* the TLB shootdown
UnmapTail(r, h) ==
    IF r.result # "Ok" THEN r
    ELSE [pt |-> r.pt, result |-> "Ok",
          events |-> IF ShootdownRegistered
                     THEN Append(r.events, Event("shootdown", h.start, h.end))
                     ELSE r.events]

\* MappedPages::unmap
unmap(pt, root, h) ==
    IF size_in_pages(h) = 0
    THEN [pt |-> pt, result |-> "Ok", events |-> <<>>]
    ELSE UnmapTail(UnmapLoop(pt, root, RangeSeq(h.start, h.end), 1, <<>>), h)

\* impl Drop for MappedPages / MappedHugePages, up to the release of the
\* pages: nothing is unmapped for an empty handle or under a foreign P4, and
\* an error of unmap is logged and swallowed
drop_unmaps(h, cur) ==
    size_in_pages(h) # 0 /\ from_current(cur).target_p4 = h.page_table_p4

\* the end of one iteration of the loops of MappedHugePages::remap and
\* unmap: the entry at index i of the table t that the walk reached is
\* rewritten with the new flags, or cleared
HugeLeafAt(pt, t, i, new_flags, clear) ==
    IF t = NoFrame THEN [pt |-> pt, result |-> "NoTable", stored |-> FALSE]
    ELSE IF pointed_frame(EntryAt(pt, t, i)) = NoFrame
    THEN [pt |-> pt, result |-> "NotMapped", stored |-> FALSE]
    ELSE [pt |-> IF clear THEN EntrySetUnused(pt, t, i)
                 ELSE EntrySet(pt, t, i, pointed_frame(EntryAt(pt, t, i)),
                               new_flags \cup {PRESENT}),
          result |-> "Ok", stored |-> TRUE]

\* one iteration of the loops of MappedHugePages::remap (clear = FALSE) and
\* MappedHugePages::unmap (clear = TRUE): the leaf level is chosen by
\* comparing huge_page_ratio() with 1, 9 and 18
HugeLeafStep(pt, root, page, page_size, new_flags, clear) ==
    IF huge_page_ratio(page_size) = 1
    THEN HugeLeafAt(pt, next_table(pt, next_table(pt, next_table(pt, root,
                                                                 p4_index(page, page_size)),
                                                  p3_index(page, page_size)),
                                   p2_index(page, page_size)),
                    p1_index(page, page_size), new_flags, clear)
    ELSE IF huge_page_ratio(page_size) = 9
    THEN HugeLeafAt(pt, next_table(pt, next_table(pt, root, p4_index(page, page_size)),
                                   p3_index(page, page_size)),
                    p2_index(page, page_size), new_flags, clear)
    ELSE IF huge_page_ratio(page_size) = 18
    THEN HugeLeafAt(pt, next_table(pt, root, p4_index(page, page_size)),
                    p3_index(page, page_size), new_flags, clear)
    ELSE [pt |-> pt, result |-> "Ok", stored |-> FALSE]

\* the loops of MappedHugePages::remap / unmap from the k-th huge page on;
\* HugeNext continues after the k-th iteration (s: its result)
RECURSIVE HugeLoop(_, _, _, _, _, _, _, _)
RECURSIVE HugeNext(_, _, _, _, _, _, _, _)
HugeLoop(pt, root, pages, page_size, new_flags, clear, k, events) ==
    IF k > Len(pages) THEN [pt |-> pt, result |-> "Ok", events |-> events]
    ELSE HugeNext(HugeLeafStep(pt, root, pages[k], page_size, new_flags, clear),
                  root, pages, page_size, new_flags, clear, k, events)

HugeNext(s, root, pages, page_size, new_flags, clear, k, events) ==
    IF s.result # "Ok"
    THEN [pt |-> s.pt, result |-> s.result, events |-> events]
    ELSE HugeLoop(s.pt, root, pages, page_size, new_flags, clear, k + 1,
                  events
                  \o (IF s.stored THEN << Event("store", pages[k], pages[k]) >>
                      ELSE <<>>)
                  \o << Event("invlpg", pages[k], pages[k]) >>)

\* the end of MappedHugePages::remap, after its loop (r: the result of the
\* loop): the update of self.flags
RemapHugeTail(r, h, new_flags) ==
    IF r.result # "Ok"
    THEN [pt |-> r.pt, result |-> r.result, h |-> h, events |-> r.events]
    ELSE [pt |-> r.pt, result |-> "Ok", h |-> [h EXCEPT !.flags = new_flags],
          events |-> r.events]

\* MappedHugePages::remap
remap_huge(pt, root, h, new_flags) ==
    IF size_in_pages(h) = 0
    THEN [pt |-> pt, result |-> "Ok", h |-> h, events |-> <<>>]
    ELSE IF new_flags = h.flags
    THEN [pt |-> pt, result |-> "Ok", h |-> h, events |-> <<>>]
    ELSE RemapHugeTail(HugeLoop(pt, root, RangeSeq(h.start, h.end), h.page_size,
                                new_flags, FALSE, 1, <<>>),
                       h, new_flags)

\* MappedHugePages::unmap
unmap_huge(pt, root, h) ==
    IF size_in_pages(h) = 0
    THEN [pt |-> pt, result |-> "Ok", events |-> <<>>]
    ELSE HugeLoop(pt, root, RangeSeq(h.start, h.end), h.page_size, {}, TRUE, 1, <<>>)

\* MappedHugePages::merge: not implemented, the argument is handed back
merge_huge(self, mp) == [result |-> "MergeUnsupported", self |-> self, mp |-> mp]

\* the value read from a frame
Read(mem, frame) == IF frame \in DOMAIN mem THEN mem[frame] ELSE 0

\* a store of value v to a frame
Store(mem, frame, v) ==
    IF v = 0 THEN [x \in (DOMAIN mem) \ {frame} |-> mem[x]]
    ELSE [x \in (DOMAIN mem) \cup {frame} |-> IF x = frame THEN v ELSE mem[x]]

\* a copy that leaves the destination as it is
copy_nothing(mem, pt, root, src, dst, k) == [mem |-> mem, fault |-> FALSE]

\* dest.copy_from_slice(source) of deep_copy, page by page from the k-th page
\* on: both slices are accessed through the active page table, and an access
\* to a page without translation traps
RECURSIVE CopyLoop(_, _, _, _, _, _)
RECURSIVE CopyPage(_, _, _, _, _, _, _, _)
CopyLoop(mem, pt, root, src, dst, k) ==
    IF k > Len(src) THEN [mem |-> mem, fault |-> FALSE]
    ELSE CopyPage(translate_page(pt, root, src[k]).frame,
                  translate_page(pt, root, dst[k]).frame,
                  mem, pt, root, src, dst, k)

\* the copy of the k-th page, sf and df: the frames the two pages translate to
CopyPage(sf, df, mem, pt, root, src, dst, k) ==
    IF sf = NoFrame \/ df = NoFrame THEN [mem |-> mem, fault |-> TRUE]
    ELSE CopyLoop(Store(mem, df, Read(mem, sf)), pt, root, src, dst, k + 1)

\* Option<EntryFlags>::None
NoFlags == {"None"}

\* deep_copy: whether the copy is remapped after the bytes were copied
needs_remapping(new_flags) == is_writable(new_flags)

\* the end of deep_copy after a failed remap (r: the result of remap): `?`
\* returns the error and drops new_mapped_pages (d: the result of its unmap)
DeepCopyDropped(mem, r, d) ==
    [pt |-> d.pt, mem |-> mem, result |-> r.result,
     h |-> NoHandle, fault |-> FALSE, events |-> r.events \o d.events]

\* deep_copy after the remap of the copy (r: the result of remap)
DeepCopyRemapped(mem, cur, new_mapped_pages, r) ==
    IF r.result # "Ok"
    THEN DeepCopyDropped(mem, r,
                         IF drop_unmaps(new_mapped_pages, cur)
                         THEN unmap(r.pt, p4_mut(from_current(cur), cur),
                                    new_mapped_pages)
                         ELSE [pt |-> r.pt, result |-> "Ok", events |-> <<>>])
    ELSE [pt |-> r.pt, mem |-> mem, result |-> "Ok",
          h |-> r.h, fault |-> FALSE, events |-> r.events]

\* deep_copy after copy_from_slice (c: the result of the copy)
DeepCopyCopied(pt, cur, mapper, new_mapped_pages, new_flags, c) ==
    IF c.fault
    THEN [pt |-> pt, mem |-> c.mem, result |-> "Fault",
          h |-> NoHandle, fault |-> TRUE, events |-> <<>>]
    ELSE DeepCopyRemapped(c.mem, cur, new_mapped_pages,
                          IF needs_remapping(new_flags)
                          THEN remap(pt, p4_mut(mapper, cur), new_mapped_pages,
                                     new_flags)
                          ELSE [pt |-> pt, result |-> "Ok", h |-> new_mapped_pages,
                                events |-> <<>>])

\* deep_copy after map_allocated_pages (m: its result): the bytes are copied
\* into the new, writable mapping
DeepCopyMapped(mem, cur, mapper, self, new_pages, new_flags, m) ==
    IF m.result # "Ok"
    THEN [pt |-> m.pt, mem |-> mem, result |-> m.result,
          h |-> NoHandle, fault |-> FALSE, events |-> <<>>]
    ELSE DeepCopyCopied(m.pt, cur, mapper,
                        Handle("MappedPages", mapper.target_p4, new_pages.start,
                               new_pages.end, PAGE_SIZE, new_flags \cup {WRITABLE},
                               m.frames),
                        new_flags,
                        CopyLoop(mem, m.pt, cur, RangeSeq(self.start, self.end),
                                 RangeSeq(new_pages.start, new_pages.end), 1))

\* MappedPages::deep_copy.  new_start: the first page of the range the page
\* allocator returns (NoFrame: none).  A failed remap drops the new handle.
deep_copy(pt, held, mem, cur, mapper, self, opt_flags, new_start, oom_at) ==
    LET new_pages == Handle("AllocatedPages", 0, new_start,
                            new_start + size_in_pages(self) - 1, PAGE_SIZE, {}, <<>>)
        new_flags == IF opt_flags = NoFlags THEN self.flags ELSE opt_flags
    IN  IF new_start = NoFrame
        THEN [pt |-> pt, mem |-> mem, result |-> "OutOfPages",
              h |-> NoHandle, fault |-> FALSE, events |-> <<>>]
        ELSE DeepCopyMapped(mem, cur, mapper, self, new_pages, new_flags,
                            map_allocated_pages(pt, held, p4_mut(mapper, cur), new_pages,
                                                new_flags \cup {WRITABLE}, oom_at))

\* MappedHugePages::deep_copy.  The two slices are slices of [u8; PAGE_SIZE]
\* of length size_in_pages from offset 0, so that copy_from_slice copies the
\* first size_in_pages 4 KiB pages of the region; both bounds checks pass
\* (size_in_pages * PAGE_SIZE is at most size_in_bytes) and the new handle is
\* writable.  new_start: the first huge page the page allocator returns.
deep_copy_huge(pt, held, mem, cur, mapper, self, opt_flags, new_start, oom_at) ==
    LET n == size_in_pages(self)
        new_pages == Handle("AllocatedHugePages", 0, new_start, new_start + n - 1,
                            self.page_size, {}, <<>>)
        new_flags == IF opt_flags = NoFlags THEN self.flags ELSE opt_flags
        m == map_allocated_huge_pages(pt, held, p4_mut(mapper, cur), new_pages,
                                      new_flags \cup {WRITABLE}, oom_at)
        new_mapped_huge_pages ==
            Handle("MappedHugePages", mapper.target_p4, new_pages.start, new_pages.end,
                   self.page_size, new_flags \cup {WRITABLE}, m.frames)
        source == self.start * huge_page_ratio(self.page_size)
        dest == new_start * huge_page_ratio(self.page_size)
        c == CopyLoop(mem, m.pt, cur, RangeSeq(source, source + n - 1),
                      RangeSeq(dest, dest + n - 1), 1)
        r == IF needs_remapping(new_flags)
             THEN remap_huge(m.pt, p4_mut(mapper, cur), new_mapped_huge_pages, new_flags)
             ELSE [pt |-> m.pt, result |-> "Ok", h |-> new_mapped_huge_pages,
                   events |-> <<>>]
    IN  IF new_start = NoFrame
        THEN [pt |-> pt, mem |-> mem, result |-> "OutOfPages",
              h |-> NoHandle, fault |-> FALSE, events |-> <<>>]
        ELSE IF m.result # "Ok"
        THEN [pt |-> m.pt, mem |-> mem, result |-> m.result,
              h |-> NoHandle, fault |-> FALSE, events |-> <<>>]
        ELSE IF c.fault
        THEN [pt |-> m.pt, mem |-> c.mem, result |-> "Fault",
              h |-> NoHandle, fault |-> TRUE, events |-> <<>>]
        ELSE IF r.result # "Ok"
        THEN DeepCopyDropped(c.mem, r,
                             IF drop_unmaps(new_mapped_huge_pages, cur)
                             THEN unmap_huge(r.pt, p4_mut(from_current(cur), cur),
                                             new_mapped_huge_pages)
                             ELSE [pt |-> r.pt, result |-> "Ok", events |-> <<>>])
        ELSE [pt |-> r.pt, mem |-> c.mem, result |-> "Ok",
              h |-> r.h, fault |-> FALSE, events |-> r.events]

\* self.pages.start_address().value()
start_address(h) == usize_mul(usize(h.page_size), h.start).value

\* self.size_in_bytes() as a usize
BytesOf(h) == usize_mul(usize(h.page_size), size_in_pages(h)).value

\* the result of a view function: the address and the length of the view it
\* returns with Ok
View(result, address, length) ==
    [result |-> result, address |-> address, length |-> length]

\* the end of the view functions once the bounds check passed: the address
\* of the view is start_address + offset
ViewFrom(address, length, overflow_checks) ==
    IF overflow_checks /\ address.overflow
    THEN View("Panic", usize(0), usize(0))
    ELSE View("Ok", address.value, length)

\* the bounds check of the view functions, end: the result of offset + bytes
ViewEnd(h, offset, end, length, overflow_checks) ==
    IF overflow_checks /\ end.overflow
    THEN View("Panic", usize(0), usize(0))
    ELSE IF ~ Leq(end.value, BytesOf(h))
    THEN View("OutOfBounds", usize(0), usize(0))
    ELSE ViewFrom(usize_add(start_address(h), offset), length, overflow_checks)

\* let end = offset + bytes, bytes: the result of the product that gives the
\* size of the view (for as_slice and as_slice_mut; no product for the others)
ViewAt(h, offset, bytes, length, overflow_checks) ==
    IF overflow_checks /\ bytes.overflow
    THEN View("Panic", usize(0), usize(0))
    ELSE ViewEnd(h, offset, usize_add(offset, bytes.value), length, overflow_checks)

\* a size that was not computed by a product
Exact(bytes) == [value |-> bytes, overflow |-> FALSE]

\* MappedPages::as_type::<T>(offset) and MappedHugePages::as_type, size: size_of::<T>()
as_type(h, offset, size, overflow_checks) ==
    ViewAt(h, offset, Exact(usize(size)), usize(1), overflow_checks)

\* MappedPages::as_type_mut::<T>(offset) and MappedHugePages::as_type_mut
as_type_mut(h, offset, size, overflow_checks) ==
    IF ~ is_writable(h.flags)
    THEN View("NotWritable", usize(0), usize(0))
    ELSE ViewAt(h, offset, Exact(usize(size)), usize(1), overflow_checks)

\* MappedPages::as_slice::<T>(byte_offset, length) and MappedHugePages::as_slice
as_slice(h, byte_offset, length, size, overflow_checks) ==
    ViewAt(h, byte_offset, usize_mul(length, size), length, overflow_checks)

\* MappedPages::as_slice_mut::<T>(byte_offset, length) and
\* MappedHugePages::as_slice_mut: size_of::<T>() * length is computed first,
\* before the flags are looked at
as_slice_mut(h, byte_offset, length, size, overflow_checks) ==
    IF overflow_checks /\ usize_mul(length, size).overflow
    THEN View("Panic", usize(0), usize(0))
    ELSE IF ~ is_writable(h.flags)
    THEN View("NotWritable", usize(0), usize(0))
    ELSE ViewAt(h, byte_offset, usize_mul(length, size), length, overflow_checks)

\* as_func without the check of the flags
as_func_unchecked(h, offset, size, overflow_checks) ==
    ViewAt(h, offset, Exact(usize(size)), usize(1), overflow_checks)

\* MappedPages::as_func::<F>(offset, space), size: size_of::<F>(); the
\* address of the function is stored in the caller's carrier `space`
as_func(h, offset, size, overflow_checks) ==
    IF ~ is_executable(h.flags)
    THEN View("NotExecutable", usize(0), usize(0))
    ELSE ViewAt(h, offset, Exact(usize(size)), usize(1), overflow_checks)

----------------------------------------------------------------------------
(* crate_metadata: the relocation writer.  Memory is read and written by   *)
(* the byte here: content maps a physical byte address to the byte there.  *)

R_X86_64_64 == 1
R_X86_64_PC32 == 2
R_X86_64_PLT32 == 4
R_X86_64_32 == 10
R_X86_64_PC64 == 24

\* usize::wrapping_sub
wrapping_sub(a, b) ==
    usize_add(usize_add(a, [k \in 1 .. LimbCount |-> LimbBase - 1 - b[k]]).value,
              usize(1)).value

\* byte k (from 0, least significant first) of a usize
ByteOf(value, k) ==
    IF k % 2 = 0 THEN value[(k \div 2) + 1] % 256 ELSE value[(k \div 2) + 1] \div 256

\* the physical byte address a store to a virtual address goes to through the
\* page table, or NoFrame when the store traps: no 4 KiB translation, or a
\* leaf that is not writable
PhysicalOf(pt, root, address) ==
    IF address[3] # 0 \/ address[4] # 0 \/ address[2] >= LimbBase \div 2 THEN NoFrame
    ELSE LET page == (address[1] + LimbBase * address[2]) \div PAGE_SIZE
             p1 == next_table(pt, next_table(pt, next_table(pt, root,
                                  p4_index(page, PAGE_SIZE)),
                                  p3_index(page, PAGE_SIZE)),
                                  p2_index(page, PAGE_SIZE))
             e == EntryAt(pt, p1, p1_index(page, PAGE_SIZE))
         IN  IF p1 = NoFrame \/ pointed_frame(e) = NoFrame \/ WRITABLE \notin e.flags
             THEN NoFrame
             ELSE e.frame * PAGE_SIZE + (address[1] % PAGE_SIZE)

\* *target_ref = value as u32 / u64: the store of the low bytes of value to
\* the physical addresses at, one per byte; the store traps as a whole
StoreBytes(mem, at, value) ==
    IF \E k \in DOMAIN at : at[k] = NoFrame
    THEN [result |-> "Fault", mem |-> mem]
    ELSE [result |-> "Ok",
          mem |-> [x \in { y \in DOMAIN mem \cup { at[k] : k \in DOMAIN at } :
                             IF \E k \in DOMAIN at : at[k] = y
                             THEN ByteOf(value, (CHOOSE k \in DOMAIN at : at[k] = y) - 1) # 0
                             ELSE mem[y] # 0 }
                     |-> IF \E k \in DOMAIN at : at[k] = x
                         THEN ByteOf(value, (CHOOSE k \in DOMAIN at : at[k] = x) - 1)
                         ELSE mem[x]]]

\* one arm of the match of write_relocation: target_ref is the view that
\* as_type_mut returned, source_val is written through it, less the address
\* of target_ref when the relocation is relative
RelocationArm(mem, pt, root, target_ref, size, source_val, relative) ==
    IF target_ref.result # "Ok" THEN [result |-> target_ref.result, mem |-> mem]
    ELSE StoreBytes(mem,
                    [k \in 1 .. size |->
                        PhysicalOf(pt, root,
                                   usize_add(target_ref.address, usize(k - 1)).value)],
                    IF relative THEN wrapping_sub(source_val, target_ref.address)
                    ELSE source_val)

\* the match of write_relocation on the type of the entry
RelocationMatch(mem, pt, root, h, typ, target_offset, source_val, overflow_checks) ==
    CASE typ = R_X86_64_32 ->
            RelocationArm(mem, pt, root,
                          as_type_mut(h, target_offset, 4, overflow_checks),
                          4, source_val, FALSE)
      [] typ = R_X86_64_64 ->
            RelocationArm(mem, pt, root,
                          as_type_mut(h, target_offset, 8, overflow_checks),
                          8, source_val, FALSE)
      [] typ \in {R_X86_64_PC32, R_X86_64_PLT32} ->
            RelocationArm(mem, pt, root,
                          as_type_mut(h, target_offset, 4, overflow_checks),
                          4, source_val, TRUE)
      [] typ = R_X86_64_PC64 ->
            RelocationArm(mem, pt, root,
                          as_type_mut(h, target_offset, 8, overflow_checks),
                          8, source_val, TRUE)
      [] OTHER -> [result |-> "Unsupported", mem |-> mem]

\* a write_relocation that leaves out the addend
write_relocation_without_addend(mem, pt, root, relocation_entry, h, mp_offset, source, oc) ==
    RelocationMatch(mem, pt, root, h, relocation_entry.typ,
                    usize_add(mp_offset, relocation_entry.offset).value, source, oc)

\* write_relocation(relocation_entry, target_sec_mapped_pages,
\* target_sec_mapped_pages_offset, source_sec_vaddr) with the target h:
\* target_offset is computed first, with the overflow behaviour of the build
write_relocation(mem, pt, root, relocation_entry, h, mp_offset, source, oc) ==
    IF oc /\ usize_add(mp_offset, relocation_entry.offset).overflow
    THEN [result |-> "Panic", mem |-> mem]
    ELSE RelocationMatch(mem, pt, root, h, relocation_entry.typ,
                         usize_add(mp_offset, relocation_entry.offset).value,
                         usize_add(source, relocation_entry.addend).value, oc)

----------------------------------------------------------------------------
(* crate_metadata: sections and crates.  A region of a crate is one        *)
(* Arc<Mutex<MappedPages>>: the handle of the model stands for the mutex   *)
(* too, two sections share a region when their mapped_pages are the same   *)
(* handle.  The mutex is a spin::Mutex, which is not reentrant.            *)

\* a lock that the holder may take again
lock_reentrant(held, m) == "Locked"

\* spin::Mutex::lock of m by a thread that holds the guards of the mutexes
\* in held: the thread spins for ever on a mutex it holds itself
lock(held, m) == IF m \in held THEN "Deadlock" ELSE "Locked"

\* the physical byte address a load from a virtual address reads through the
\* page table, or NoFrame when the load traps
LoadedFrom(pt, root, address) ==
    IF address[3] # 0 \/ address[4] # 0 \/ address[2] >= LimbBase \div 2 THEN NoFrame
    ELSE LET frame == translate_page(pt, root,
                          (address[1] + LimbBase * address[2]) \div PAGE_SIZE).frame
         IN  IF frame = NoFrame THEN NoFrame
             ELSE frame * PAGE_SIZE + (address[1] % PAGE_SIZE)

\* dest.copy_from_slice(source) on two byte slices of the same length, from
\* the k-th byte on: an access without translation traps
RECURSIVE copy_from_slice(_, _, _, _, _, _)
copy_from_slice(mem, pt, root, dest, source, k) ==
    LET to == PhysicalOf(pt, root, usize_add(dest.address, usize(k)).value)
        from == LoadedFrom(pt, root, usize_add(source.address, usize(k)).value)
    IN  IF Leq(dest.length, usize(k)) THEN [result |-> "Ok", mem |-> mem]
        ELSE IF to = NoFrame \/ from = NoFrame THEN [result |-> "Fault", mem |-> mem]
        ELSE copy_from_slice(Store(mem, to, Read(mem, from)), pt, root, dest, source,
                             k + 1)

\* LoadedSection::start_address
LoadedSection_start_address(section) == section.address_range.start

\* LoadedSection::size
LoadedSection_size(section) == section.address_range.end - section.address_range.start

\* LoadedSection::copy_section_data_to: the guard of the region of the
\* destination is held while the region of the source is locked
copy_section_data_to(mem, pt, root, self, destination_section, oc) ==
    LET dest_sec_data == as_slice_mut(destination_section.mapped_pages,
                                      usize(destination_section.mapped_pages_offset),
                                      usize(LoadedSection_size(destination_section)),
                                      1, oc)
        source_sec_data == as_slice(self.mapped_pages, usize(self.mapped_pages_offset),
                                    usize(LoadedSection_size(self)), 1, oc)
    IN  IF lock({}, destination_section.mapped_pages) = "Deadlock"
        THEN [result |-> "Deadlock", mem |-> mem]
        ELSE IF dest_sec_data.result # "Ok"
        THEN [result |-> dest_sec_data.result, mem |-> mem]
        ELSE IF lock({destination_section.mapped_pages}, self.mapped_pages) = "Deadlock"
        THEN [result |-> "Deadlock", mem |-> mem]
        ELSE IF source_sec_data.result # "Ok"
        THEN [result |-> source_sec_data.result, mem |-> mem]
        ELSE IF dest_sec_data.length = source_sec_data.length
        THEN copy_from_slice(mem, pt, root, dest_sec_data, source_sec_data, 0)
        ELSE [result |-> "DifferentLength", mem |-> mem]

TEXT_SECTION_FLAGS == {PRESENT}
RODATA_SECTION_FLAGS == {PRESENT, NO_EXECUTE}
DATA_BSS_SECTION_FLAGS == {PRESENT, NO_EXECUTE, WRITABLE}

\* a region of a crate, Option<(Arc<Mutex<MappedPages>>, Range<VirtualAddress>)>:
\* the handle and the addresses of the sections in it; NoRange: None
NoRange == [mp |-> NoHandle, start |-> 0, end |-> 0]

\* RelocationEntry::is_absolute
is_absolute(relocation) == relocation.typ \in {R_X86_64_32, R_X86_64_64}

\* the end of the closure deep_copy_mp (new_mp: what MappedPages::deep_copy
\* returned): `?`, and the addresses of the sections in the new region.  The
\* addresses of a loaded crate are small enough here for the sums not to wrap.
DeepCopyMpCopied(old_mp_range, new_mp) ==
    IF new_mp.result # "Ok"
    THEN [pt |-> new_mp.pt, mem |-> new_mp.mem, result |-> new_mp.result,
          range |-> NoRange, fault |-> new_mp.fault, events |-> new_mp.events]
    ELSE [pt |-> new_mp.pt, mem |-> new_mp.mem, result |-> "Ok",
          range |-> [mp |-> new_mp.h,
                     start |-> new_mp.h.start * PAGE_SIZE
                                  + (old_mp_range.start
                                       - old_mp_range.mp.start * PAGE_SIZE),
                     end |-> new_mp.h.start * PAGE_SIZE
                                + (old_mp_range.start - old_mp_range.mp.start * PAGE_SIZE)
                                + (old_mp_range.end - old_mp_range.start)],
          fault |-> FALSE, events |-> new_mp.events]

\* the closure deep_copy_mp of LoadedCrate::deep_copy.  The guard
\* old_mp_locked lives to the end of the closure, and the mutex is locked a
\* second time for the call of MappedPages::deep_copy.
deep_copy_mp(pt, held, mem, cur, mapper, old_mp_range, flags, new_start, oom_at) ==
    IF lock({}, old_mp_range.mp) = "Deadlock"
       \/ lock({old_mp_range.mp}, old_mp_range.mp) = "Deadlock"
    THEN [pt |-> pt, mem |-> mem, result |-> "Deadlock", range |-> NoRange,
          fault |-> FALSE, events |-> <<>>]
    ELSE DeepCopyMpCopied(old_mp_range,
                          deep_copy(pt, held, mem, cur, mapper, old_mp_range.mp,
                                    flags \cup {WRITABLE}, new_start, oom_at))

\* the frames of a handle
HandleFrames(h) == { h.frames[k] : k \in DOMAIN h.frames }

\* the first block of LoadedCrate::deep_copy, from the k-th region on: the
\* regions are copied in the order text, rodata, data, each with the flags
\* of its kind, and `?` returns the first error.  prev: the state that the
\* copies so far left, ranges: the new regions so far.
RECURSIVE CopyRegions(_, _, _, _, _, _, _, _)
RECURSIVE CopiedRegion(_, _, _, _, _, _, _, _, _)
CopyRegions(prev, ranges, cur, mapper, old, new_start, oom_at, k) ==
    IF k > Len(old) \/ prev.result # "Ok" THEN [prev EXCEPT !.range = ranges]
    ELSE IF old[k] = NoRange
    THEN CopyRegions(prev, ranges, cur, mapper, old, new_start, oom_at, k + 1)
    ELSE CopiedRegion(prev, ranges, cur, mapper, old, new_start, oom_at, k,
                      deep_copy_mp(prev.pt, prev.held, prev.mem, cur, mapper, old[k],
                                   << TEXT_SECTION_FLAGS, RODATA_SECTION_FLAGS,
                                      DATA_BSS_SECTION_FLAGS >>[k],
                                   new_start[k], oom_at))

\* the first block after the copy of the k-th region (r: what deep_copy_mp
\* returned)
CopiedRegion(prev, ranges, cur, mapper, old, new_start, oom_at, k, r) ==
    CopyRegions([pt |-> r.pt, mem |-> r.mem, result |-> r.result, range |-> ranges,
                 fault |-> r.fault, events |-> prev.events \o r.events,
                 held |-> prev.held \cup HandleFrames(r.range.mp)],
                [ranges EXCEPT ![k] = r.range], cur, mapper, old, new_start, oom_at,
                k + 1)

\* LoadedSection::with_dependencies
with_dependencies(typ, name, mapped_pages, mapped_pages_offset, virt_addr, size, global, parent_crate, sections_i_depend_on, sections_dependent_on_me, internal_dependencies) ==
    [typ |-> typ, name |-> name, mapped_pages |-> mapped_pages,
     mapped_pages_offset |-> mapped_pages_offset,
     address_range |-> [start |-> virt_addr, end |-> virt_addr + size],
     global |-> global, parent_crate |-> parent_crate,
     sections_i_depend_on |-> sections_i_depend_on,
     sections_dependent_on_me |-> sections_dependent_on_me,
     internal_dependencies |-> internal_dependencies]

\* the match on the type of a section in the two loops of deep_copy: the new
\* region the section lies in
RegionOf(typ, text, rodata, data) ==
    CASE typ = "Text" -> text
      [] typ \in {"Rodata", "GccExceptTable", "EhFrame"} -> rodata
      [] typ \in {"Data", "Bss"} -> data

\* the first loop of deep_copy, for one section: the error that `?` returns
SectionError(old_sec, text, rodata, data) ==
    IF RegionOf(old_sec.typ, text, rodata, data) = NoRange THEN "MissingPages"
    ELSE IF address_at_offset(RegionOf(old_sec.typ, text, rodata, data).mp,
                              old_sec.mapped_pages_offset).result = "None"
    THEN "NoVirtAddr"
    ELSE "Ok"

\* the first loop of deep_copy, for one section: the new section
NewSection(old_sec, text, rodata, data, new_crate_weak_ref) ==
    with_dependencies(old_sec.typ, old_sec.name,
                      RegionOf(old_sec.typ, text, rodata, data).mp,
                      old_sec.mapped_pages_offset,
                      address_at_offset(RegionOf(old_sec.typ, text, rodata, data).mp,
                                        old_sec.mapped_pages_offset).address,
                      LoadedSection_size(old_sec), old_sec.global, new_crate_weak_ref,
                      old_sec.sections_i_depend_on, <<>>,
                      old_sec.internal_dependencies)

\* the sections of a crate in the order of the BTreeMap, by section index
RECURSIVE Ascending(_)
Ascending(indices) ==
    IF indices = {} THEN <<>>
    ELSE LET least == CHOOSE i \in indices : \A j \in indices : i <= j
         IN  <<least>> \o Ascending(indices \ {least})

\* the first loop of deep_copy: the first error in the order of the section
\* indices, or the new sections; the loop changes nothing but its own maps
FirstLoop(self, text, rodata, data, new_crate_weak_ref) ==
    LET bad == { i \in DOMAIN self.sections :
                   SectionError(self.sections[i], text, rodata, data) # "Ok" }
    IN  IF bad # {}
        THEN [result |-> SectionError(self.sections[Ascending(bad)[1]],
                                      text, rodata, data),
              new_sections |-> <<>>]
        ELSE [result |-> "Ok",
              new_sections |-> [i \in DOMAIN self.sections |->
                                   NewSection(self.sections[i], text, rodata, data,
                                              new_crate_weak_ref)]]

\* the reference to a section: the crate that holds it and its section index
SectionRef(crate, shndx) == <<crate, shndx>>

\* the two loops over the dependencies of one new section, first over
\* sections_i_depend_on and then over internal_dependencies, from the k-th
\* dependency of the two lists on.  st: the memory, the sections of the other
\* crates and the result so far; new_sec_ref is locked by the thread.  An
\* absolute relocation on another crate's section is skipped; an internal
\* dependency on the section itself reads the address of new_sec and takes
\* no lock.
RECURSIVE DependencyLoop(_, _, _, _, _, _, _, _)
RECURSIVE DependencyWritten(_, _, _, _, _, _, _, _, _, _)
DependencyLoop(st, pt, root, new_sections, new_sec, new_sec_ref, k, oc) ==
    LET strong == k <= Len(new_sec.sections_i_depend_on)
        dep == IF strong THEN new_sec.sections_i_depend_on[k]
               ELSE new_sec.internal_dependencies[k - Len(new_sec.sections_i_depend_on)]
    IN  IF k > Len(new_sec.sections_i_depend_on) + Len(new_sec.internal_dependencies)
        THEN st
        ELSE IF strong /\ is_absolute(dep.relocation)
        THEN DependencyLoop(st, pt, root, new_sections, new_sec, new_sec_ref, k + 1, oc)
        ELSE IF ~ strong /\ dep.source_sec_shndx \notin DOMAIN new_sections
        THEN [st EXCEPT !.result = "NoSourceSection"]
        ELSE IF (strong \/ SectionRef(new_sec_ref[1], dep.source_sec_shndx) # new_sec_ref)
                /\ lock({new_sec_ref},
                        IF strong THEN dep.section
                        ELSE SectionRef(new_sec_ref[1], dep.source_sec_shndx)) = "Deadlock"
        THEN [st EXCEPT !.result = "Deadlock"]
        ELSE DependencyWritten(st, pt, root, new_sections, new_sec, new_sec_ref, k, oc,
                               strong,
                               write_relocation(
                                   st.mem, pt, root, dep.relocation, new_sec.mapped_pages,
                                   usize(new_sec.mapped_pages_offset),
                                   usize(LoadedSection_start_address(
                                             IF strong THEN st.foreign[dep.section]
                                             ELSE new_sections[dep.source_sec_shndx])),
                                   oc))

\* the loops after the write of the k-th relocation (w: what write_relocation
\* returned): `?`, and for a dependency on another crate's section the new
\* section is pushed on sections_dependent_on_me of the source
DependencyWritten(st, pt, root, new_sections, new_sec, new_sec_ref, k, oc, strong, w) ==
    IF w.result # "Ok" THEN [st EXCEPT !.result = w.result, !.mem = w.mem]
    ELSE DependencyLoop(
             [st EXCEPT !.mem = w.mem,
                        !.foreign =
                            IF strong
                            THEN [st.foreign EXCEPT
                                     ![new_sec.sections_i_depend_on[k].section]
                                         .sections_dependent_on_me =
                                       Append(@, [section |-> new_sec_ref,
                                                  relocation |->
                                                      new_sec.sections_i_depend_on[k]
                                                          .relocation])]
                            ELSE st.foreign],
             pt, root, new_sections, new_sec, new_sec_ref, k + 1, oc)

\* the second loop of deep_copy, from the j-th new section on
RECURSIVE SecondLoop(_, _, _, _, _, _, _, _)
SecondLoop(st, pt, root, new_sections, new_crate, indices, j, oc) ==
    IF j > Len(indices) \/ st.result # "Ok" THEN st
    ELSE SecondLoop(DependencyLoop(st, pt, root, new_sections,
                                   new_sections[indices[j]],
                                   SectionRef(new_crate, indices[j]), 1, oc),
                    pt, root, new_sections, new_crate, indices, j + 1, oc)

\* the drop of the copies of the regions when deep_copy returns an error:
\* the handles are dropped one after the other, from the k-th on
RECURSIVE DropRegions(_, _, _, _, _)
RECURSIVE DroppedRegion(_, _, _, _, _, _)
DropRegions(pt, cur, handles, k, events) ==
    IF k > Len(handles) THEN [pt |-> pt, events |-> events]
    ELSE IF handles[k] = NoHandle \/ ~ drop_unmaps(handles[k], cur)
    THEN DropRegions(pt, cur, handles, k + 1, events)
    ELSE DroppedRegion(cur, handles, k, events,
                       unmap(pt, p4_mut(from_current(cur), cur), handles[k]),
                       Event("release_pages", handles[k].start, handles[k].end))

\* the drops after the unmap of the k-th handle (u: what unmap returned)
DroppedRegion(cur, handles, k, events, u, released) ==
    DropRegions(u.pt, cur, handles, k + 1, Append(events \o u.events, released))

\* Option<StrongCrateRef>::None
NoCrate == [id |-> "none"]

\* the remaps at the end of deep_copy, from the k-th region on: the text and
\* the rodata region are given the flags of their kind, the data region is
\* left as it was mapped; `?` returns the first error
RECURSIVE RemapRegions(_, _, _, _, _)
RECURSIVE RemappedRegion(_, _, _, _, _, _)
RemapRegions(st, cur, mapper, ranges, k) ==
    IF k > 2 \/ st.result # "Ok" THEN [st EXCEPT !.range = ranges]
    ELSE IF ranges[k] = NoRange THEN RemapRegions(st, cur, mapper, ranges, k + 1)
    ELSE RemappedRegion(st, cur, mapper, ranges, k,
                        remap(st.pt, p4_mut(mapper, cur), ranges[k].mp,
                              << TEXT_SECTION_FLAGS, RODATA_SECTION_FLAGS >>[k]))

\* the remaps after the remap of the k-th region (r: what remap returned)
RemappedRegion(st, cur, mapper, ranges, k, r) ==
    RemapRegions([st EXCEPT !.pt = r.pt, !.result = r.result,
                            !.events = st.events \o r.events],
                 cur, mapper, [ranges EXCEPT ![k].mp = r.h], k + 1)

\* the new crate that deep_copy returns with Ok: the sections refer to the
\* regions as they are after the remaps
NewCrate(self, new_crate, ranges, new_sections) ==
    [id |-> new_crate, crate_name |-> self.crate_name,
     text_pages |-> ranges[1], rodata_pages |-> ranges[2], data_pages |-> ranges[3],
     sections |-> [i \in DOMAIN new_sections |->
                      [new_sections[i] EXCEPT !.mapped_pages =
                          RegionOf(new_sections[i].typ, ranges[1], ranges[2],
                                   ranges[3]).mp]],
     bss_sections |-> { i \in DOMAIN new_sections : new_sections[i].typ = "Bss" }]

\* the end of LoadedCrate::deep_copy in the state st, with the sections of
\* the other crates as they are then: a trap or a thread that waits for a
\* lock leaves everything as it is, `?` drops the copies of the regions (the
\* data region first; dropped: what the drops leave), and Ok returns the new
\* crate
CrateCopyEnds(self, st, foreign, new_crate, new_sections, handles, dropped) ==
    IF st.result = "Ok"
    THEN [result |-> "Ok", pt |-> st.pt, mem |-> st.mem, foreign |-> foreign,
          new_crate |-> NewCrate(self, new_crate, st.range, new_sections),
          live |-> { handles[k] : k \in 1 .. 3 } \ {NoHandle},
          events |-> st.events, fault |-> FALSE]
    ELSE IF st.result \in {"Fault", "Panic", "Deadlock"}
    THEN [result |-> st.result, pt |-> st.pt, mem |-> st.mem,
          foreign |-> foreign, new_crate |-> NoCrate,
          live |-> { handles[k] : k \in 1 .. 3 } \ {NoHandle},
          events |-> st.events, fault |-> st.result # "Deadlock"]
    ELSE [result |-> st.result, pt |-> dropped.pt, mem |-> st.mem,
          foreign |-> foreign, new_crate |-> NoCrate, live |-> {},
          events |-> st.events \o dropped.events, fault |-> FALSE]

\* LoadedCrate::deep_copy in the state st that the loops or the remaps left
CrateCopyDrops(self, st, cur, foreign, new_crate, new_sections) ==
    CrateCopyEnds(self, st, foreign, new_crate, new_sections,
                  << st.range[3].mp, st.range[2].mp, st.range[1].mp >>,
                  DropRegions(st.pt, cur,
                              << st.range[3].mp, st.range[2].mp, st.range[1].mp >>,
                              1, <<>>))

\* LoadedCrate::deep_copy after the second loop (second: what it left): `?`,
\* then the remaps
CrateCopyRelocated(self, cur, mapper, copied, new_crate, new_sections, second) ==
    CrateCopyDrops(self,
                   IF second.result # "Ok"
                   THEN [copied EXCEPT !.result = second.result, !.mem = second.mem]
                   ELSE RemapRegions([copied EXCEPT !.mem = second.mem], cur, mapper,
                                     copied.range, 1),
                   cur, second.foreign, new_crate, new_sections)

\* LoadedCrate::deep_copy after the first loop (first: what it left): `?`,
\* then the second loop
CrateCopyListed(self, foreign, cur, mapper, copied, new_crate, oc, first) ==
    IF first.result # "Ok"
    THEN CrateCopyDrops(self, [copied EXCEPT !.result = first.result], cur, foreign,
                        new_crate, <<>>)
    ELSE CrateCopyRelocated(self, cur, mapper, copied, new_crate, first.new_sections,
                            SecondLoop([result |-> "Ok", mem |-> copied.mem,
                                        foreign |-> foreign],
                                       copied.pt, cur, first.new_sections, new_crate,
                                       Ascending(DOMAIN first.new_sections), 1, oc))

\* LoadedCrate::deep_copy after the first block (copied: the state after the
\* copies of the regions): `?`, then the first loop over the sections
CrateCopySections(self, foreign, cur, mapper, copied, new_crate, oc) ==
    IF copied.result # "Ok"
    THEN CrateCopyDrops(self, copied, cur, foreign, new_crate, <<>>)
    ELSE CrateCopyListed(self, foreign, cur, mapper, copied, new_crate, oc,
                         FirstLoop(self, copied.range[1], copied.range[2],
                                   copied.range[3], new_crate))

\* LoadedCrate::deep_copy.  foreign: the sections of the other crates that
\* the sections of self depend on; new_crate: the identity of the new crate;
\* new_start: the first page that the page allocator returns for the copy
\* of the text, the rodata and the data region.
LoadedCrate_deep_copy(pt, held, mem, cur, mapper, self, foreign, new_crate, new_start, oom_at, oc) ==
    CrateCopySections(self, foreign, cur, mapper,
                      CopyRegions([pt |-> pt, mem |-> mem, result |-> "Ok",
                                   range |-> << NoRange, NoRange, NoRange >>,
                                   fault |-> FALSE, events |-> <<>>, held |-> held],
                                  << NoRange, NoRange, NoRange >>, cur, mapper,
                                  << self.text_pages, self.rodata_pages,
                                     self.data_pages >>,
                                  new_start, oom_at, 1),
                      new_crate, oc)

\* str::split(delimiter): the pieces of a string, a string being the sequence
\* of its characters
RECURSIVE split(_, _)
split(str, delimiter) ==
    IF \A i \in 1 .. Len(str) : str[i] # delimiter THEN << str >>
    ELSE LET i == CHOOSE i \in 1 .. Len(str) :
                      str[i] = delimiter /\ \A j \in 1 .. (i - 1) : str[j] # delimiter
         IN  << SubSeq(str, 1, i - 1) >> \o split(SubSeq(str, i + 1, Len(str)), delimiter)

\* the end of from_module_name, for the prefix and the crate name found
CrateTypeOf(prefix, crate_name) ==
    LET namespace_prefix == SubSeq(prefix, 2, Len(prefix))
    IN  IF Len(prefix) >= 1 /\ prefix[1] = "k"
        THEN [result |-> "Ok", value |-> << "Kernel", namespace_prefix, crate_name >>]
        ELSE IF Len(prefix) >= 1 /\ prefix[1] = "a"
        THEN [result |-> "Ok", value |-> << "Application", namespace_prefix, crate_name >>]
        ELSE IF Len(prefix) >= 1 /\ prefix[1] = "u"
        THEN [result |-> "Ok", value |-> << "Userspace", namespace_prefix, crate_name >>]
        ELSE [result |-> "Err", value |-> << >>]

\* a from_module_name that does not look for a second delimiter
from_module_name_first_two(module_name) ==
    IF Len(split(module_name, "#")) < 2 THEN [result |-> "Err", value |-> << >>]
    ELSE CrateTypeOf(split(module_name, "#")[1], split(module_name, "#")[2])

\* CrateType::from_module_name
from_module_name(module_name) ==
    IF Len(split(module_name, "#")) < 2 THEN [result |-> "Err", value |-> << >>]
    ELSE IF Len(split(module_name, "#")) > 2 THEN [result |-> "Err", value |-> << >>]
    ELSE CrateTypeOf(split(module_name, "#")[1], split(module_name, "#")[2])

----------------------------------------------------------------------------
(* State machine *)

\* the record of the last operation: its name, its result, the page range of
\* the handle it acted on or returned, and the TLB events it issued
Last(op, result, h, events) ==
    [op |-> op, result |-> result, start |-> h.start, end |-> h.end, events |-> events]

\* the units of the page allocator covered by a range of pages
Units(h) == { <<h.page_size, k>> : k \in h.start .. h.end }

\* allocate_pages(n) / allocate_huge_pages(n, page_size) can return the range
\* of n pages from start: it lies in the allocator's area and is free
CanAllocate(kind, page_size, start, n) ==
    /\ n >= 1
    /\ \A k \in start .. (start + n - 1) :
          k \in Numbers(kind, page_size) /\ <<page_size, k>> \notin allocated_pages

Init ==
    /\ pte = << >>
    /\ current_p4 = 1
    /\ allocated_pages = {}
    /\ mapped = {}
    /\ content = << >>
    /\ faulted = FALSE
    /\ last = Last("init", "Ok", NoHandle, <<>>)

\* no operation starts after a trap, or beyond MaxHandles live handles (for
\* the operations that create one)
CanStart(creates) ==
    /\ ~ faulted
    /\ creates => Cardinality(mapped) < MaxHandles

\* the frames in use that no page-table entry need refer to: those the live
\* handles were given and those that hold data
Held ==
    UNION { { h.frames[k] : k \in DOMAIN h.frames } : h \in mapped }
        \cup DOMAIN content

\* the state after a mapping function returned r for the pages and frames
\* given: on Ok the caller holds the new handle, on an error the pages were
\* dropped with the function's argument
MapReturns(op, kind, mapper, pages, flags, frames, r) ==
    /\ pte' = r.pt
    /\ mapped' = IF r.result = "Ok"
                 THEN mapped \cup {Handle(kind, mapper.target_p4, pages.start, pages.end,
                                          pages.page_size, flags, frames)}
                 ELSE mapped
    /\ allocated_pages' = IF r.result = "Ok" THEN allocated_pages \cup Units(pages)
                          ELSE allocated_pages \ Units(pages)
    /\ last' = Last(op, r.result, pages, <<>>)
    /\ UNCHANGED <<current_p4, content, faulted>>

\* as MapReturns, for the functions that allocate the frames and return them
MapReturnsFrames(op, kind, mapper, pages, flags, r) ==
    MapReturns(op, kind, mapper, pages, flags, r.frames, r)

\* allocate_pages(n), then mapper.map_allocated_pages_to(pages, frames, flags)
MapAllocatedPagesTo(mapper, start, n, fstart, fn, flags) ==
    LET pages == Handle("AllocatedPages", 0, start, start + n - 1, PAGE_SIZE, {},
                        RangeSeq(fstart, fstart + fn - 1))
    IN  /\ CanStart(TRUE)
        /\ CanAllocate("AllocatedPages", PAGE_SIZE, start, n)
        /\ MapReturns("map_to", "MappedPages", mapper, pages, flags, pages.frames,
                      map_allocated_pages_to(pte, Held, p4_mut(mapper, current_p4),
                                             pages,
                                             [start |-> fstart, end |-> fstart + fn - 1],
                                             flags))

\* allocate_pages(n), then mapper.map_allocated_pages(pages, flags)
MapAllocatedPages(mapper, start, n, flags, oom_at) ==
    LET pages == Handle("AllocatedPages", 0, start, start + n - 1, PAGE_SIZE, {}, <<>>)
    IN  /\ CanStart(TRUE)
        /\ CanAllocate("AllocatedPages", PAGE_SIZE, start, n)
        /\ MapReturnsFrames("map", "MappedPages", mapper, pages, flags,
                            map_allocated_pages(pte, Held, p4_mut(mapper, current_p4),
                                                pages, flags, oom_at))

\* allocate_huge_pages(n, page_size), then mapper.map_allocated_huge_pages(pages, flags)
MapAllocatedHugePages(mapper, page_size, start, n, flags, oom_at) ==
    LET pages == Handle("AllocatedHugePages", 0, start, start + n - 1, page_size, {}, <<>>)
    IN  /\ CanStart(TRUE)
        /\ CanAllocate("AllocatedHugePages", page_size, start, n)
        /\ MapReturnsFrames("map_huge", "MappedHugePages", mapper, pages, flags,
                            map_allocated_huge_pages(pte, Held,
                                                     p4_mut(mapper, current_p4),
                                                     pages, flags, oom_at))

\* the state after h.remap(..) returned r
RemapReturns(op, h, r) ==
    /\ pte' = r.pt
    /\ mapped' = (mapped \ {h}) \cup {r.h}
    /\ last' = Last(op, r.result, h, r.events)
    /\ UNCHANGED <<current_p4, allocated_pages, content, faulted>>

\* h.remap(mapper, new_flags) on a MappedPages
Remap(mapper, h, new_flags) ==
    /\ CanStart(FALSE)
    /\ h \in mapped /\ h.kind = "MappedPages"
    /\ RemapReturns("remap", h, remap(pte, p4_mut(mapper, current_p4), h, new_flags))

\* h.remap(mapper, new_flags) on a MappedHugePages
RemapHuge(mapper, h, new_flags) ==
    /\ CanStart(FALSE)
    /\ h \in mapped /\ h.kind = "MappedHugePages"
    /\ RemapReturns("remap_huge", h,
                    remap_huge(pte, p4_mut(mapper, current_p4), h, new_flags))

\* h1.merge(h2) on two MappedPages; on an error the caller keeps h2
Merge(h1, h2) ==
    LET r == merge(h1, h2)
    IN  /\ CanStart(FALSE)
        /\ h1 \in mapped /\ h2 \in mapped /\ h1 # h2
        /\ h1.kind = "MappedPages" /\ h2.kind = "MappedPages"
        /\ mapped' = (mapped \ {h1, h2}) \cup ({r.self, r.mp} \ {NoHandle})
        /\ last' = Last("merge", r.result, h1, <<>>)
        /\ UNCHANGED <<pte, current_p4, allocated_pages, content, faulted>>

\* h1.merge(h2) on two MappedHugePages
MergeHuge(h1, h2) ==
    LET r == merge_huge(h1, h2)
    IN  /\ CanStart(FALSE)
        /\ h1 \in mapped /\ h2 \in mapped /\ h1 # h2
        /\ h1.kind = "MappedHugePages" /\ h2.kind = "MappedHugePages"
        /\ mapped' = (mapped \ {h1, h2}) \cup ({r.self, r.mp} \ {NoHandle})
        /\ last' = Last("merge_huge", r.result, h1, <<>>)
        /\ UNCHANGED <<pte, current_p4, allocated_pages, content, faulted>>

\* the state after h.deep_copy(..) returned r; new_pages: the pages it
\* allocated, which an error drops
DeepCopyReturns(new_pages, r) ==
    /\ pte' = r.pt
    /\ content' = r.mem
    /\ faulted' = r.fault
    /\ mapped' = IF r.result = "Ok" THEN mapped \cup {r.h} ELSE mapped
    /\ allocated_pages' = IF r.result \in {"Ok", "Fault"}
                          THEN allocated_pages \cup Units(new_pages)
                          ELSE allocated_pages
    /\ last' = Last("deep_copy", r.result, r.h, r.events)
    /\ UNCHANGED <<current_p4>>

\* h.deep_copy(opt_flags, mapper, allocator) on a MappedPages
DeepCopy(mapper, h, opt_flags, new_start, oom_at) ==
    /\ CanStart(TRUE)
    /\ h \in mapped /\ h.kind = "MappedPages"
    /\ IF \E s \in PageNumbers :
             CanAllocate("AllocatedPages", PAGE_SIZE, s, size_in_pages(h))
       THEN new_start # NoFrame
            /\ CanAllocate("AllocatedPages", PAGE_SIZE, new_start, size_in_pages(h))
       ELSE new_start = NoFrame
    /\ DeepCopyReturns(Handle("AllocatedPages", 0, new_start,
                              new_start + size_in_pages(h) - 1, PAGE_SIZE, {}, <<>>),
                       deep_copy(pte, Held, content, current_p4, mapper, h, opt_flags,
                                 new_start, oom_at))

\* h.deep_copy(opt_flags, mapper, allocator) on a MappedHugePages
DeepCopyHuge(mapper, h, opt_flags, new_start, oom_at) ==
    /\ CanStart(TRUE)
    /\ h \in mapped /\ h.kind = "MappedHugePages"
    /\ IF \E s \in HugeNumbers(h.page_size) :
             CanAllocate("AllocatedHugePages", h.page_size, s, size_in_pages(h))
       THEN new_start # NoFrame
            /\ CanAllocate("AllocatedHugePages", h.page_size, new_start,
                           size_in_pages(h))
       ELSE new_start = NoFrame
    /\ DeepCopyReturns(Handle("AllocatedHugePages", 0, new_start,
                              new_start + size_in_pages(h) - 1, h.page_size, {}, <<>>),
                       deep_copy_huge(pte, Held, content, current_p4, mapper, h,
                                      opt_flags, new_start, oom_at))

\* the state after drop(h) ran unmap with result r (or skipped it) and
\* released the pages
DropReturns(op, h, r) ==
    /\ pte' = r.pt
    /\ mapped' = mapped \ {h}
    /\ allocated_pages' = allocated_pages \ Units(h)
    /\ last' = Last(op, r.result, h,
                    Append(r.events, Event("release_pages", h.start, h.end)))
    /\ UNCHANGED <<current_p4, content, faulted>>

\* drop(h) of a MappedPages: unmap unless the active P4 is another one, then
\* the AllocatedPages inside is dropped, which releases the pages
Drop(h) ==
    /\ CanStart(FALSE)
    /\ h \in mapped /\ h.kind = "MappedPages"
    /\ DropReturns("drop", h,
                   IF drop_unmaps(h, current_p4)
                   THEN unmap(pte, p4_mut(from_current(current_p4), current_p4), h)
                   ELSE [pt |-> pte, result |-> "Skipped", events |-> <<>>])

\* drop(h) of a MappedHugePages
DropHuge(h) ==
    /\ CanStart(FALSE)
    /\ h \in mapped /\ h.kind = "MappedHugePages"
    /\ DropReturns("drop_huge", h,
                   IF drop_unmaps(h, current_p4)
                   THEN unmap_huge(pte, p4_mut(from_current(current_p4), current_p4), h)
                   ELSE [pt |-> pte, result |-> "Skipped", events |-> <<>>])

\* a store of v through h.as_slice_mut::<u8>(..) into the k-th page of a
\* MappedPages: refused unless the handle is writable; the store goes
\* through the active page table and traps when the page has no translation
WriteSlice(h, k, v) ==
    LET f == translate_page(pte, current_p4, h.start + k).frame
    IN  /\ CanStart(FALSE)
        /\ h \in mapped /\ h.kind = "MappedPages"
        /\ k \in 0 .. (size_in_pages(h) - 1)
        /\ IF ~ is_writable(h.flags)
           THEN /\ last' = Last("write", "NotWritable", h, <<>>)
                /\ UNCHANGED <<content, faulted>>
           ELSE IF f = NoFrame
           THEN /\ last' = Last("write", "Fault", h, <<>>)
                /\ faulted' = TRUE
                /\ UNCHANGED content
           ELSE /\ last' = Last("write", "Ok", h, <<>>)
                /\ content' = Store(content, f, v)
                /\ UNCHANGED faulted
        /\ UNCHANGED <<pte, current_p4, allocated_pages, mapped>>

\* the scheduler activates the other address space
SwitchP4(p4) ==
    /\ CanStart(FALSE)
    /\ p4 \in P4Frames /\ p4 # current_p4
    /\ current_p4' = p4
    /\ last' = Last("switch", "Ok", NoHandle, <<>>)
    /\ UNCHANGED <<pte, allocated_pages, mapped, content, faulted>>

\* the state after a view function returned r: a panic stops the kernel
ViewReturns(op, h, r) ==
    /\ last' = Last(op, r.result, h, << Event("view", r.address, r.length) >>)
    /\ faulted' = (r.result = "Panic")
    /\ UNCHANGED <<pte, current_p4, allocated_pages, mapped, content>>

\* h.as_type::<T>(offset) on a MappedPages or MappedHugePages;
\* overflow_checks: whether the build checks integer overflow
AsType(h, offset, size, overflow_checks) ==
    /\ CanStart(FALSE)
    /\ h \in mapped
    /\ ViewReturns("as_type", h, as_type(h, offset, size, overflow_checks))

\* h.as_type_mut::<T>(offset)
AsTypeMut(h, offset, size, overflow_checks) ==
    /\ CanStart(FALSE)
    /\ h \in mapped
    /\ ViewReturns("as_type_mut", h, as_type_mut(h, offset, size, overflow_checks))

\* h.as_slice::<T>(byte_offset, length)
AsSlice(h, byte_offset, length, size, overflow_checks) ==
    /\ CanStart(FALSE)
    /\ h \in mapped
    /\ ViewReturns("as_slice", h, as_slice(h, byte_offset, length, size, overflow_checks))

\* h.as_slice_mut::<T>(byte_offset, length)
AsSliceMut(h, byte_offset, length, size, overflow_checks) ==
    /\ CanStart(FALSE)
    /\ h \in mapped
    /\ ViewReturns("as_slice_mut", h,
                   as_slice_mut(h, byte_offset, length, size, overflow_checks))

\* size_of::<F>() for a function type F
FuncSize == 8

\* the state after as_func returned r; space: the value of the caller's
\* carrier before the call, which is overwritten on the Ok path only
FuncReturns(h, space, r) ==
    /\ last' = Last("as_func", r.result, h,
                    << Event("space", IF r.result = "Ok" THEN r.address ELSE space,
                             space) >>)
    /\ faulted' = (r.result = "Panic")
    /\ UNCHANGED <<pte, current_p4, allocated_pages, mapped, content>>

\* h.as_func::<F>(offset, &mut space) on a MappedPages
AsFunc(h, offset, space, overflow_checks) ==
    /\ CanStart(FALSE)
    /\ h \in mapped /\ h.kind = "MappedPages"
    /\ FuncReturns(h, space, as_func(h, offset, FuncSize, overflow_checks))

\* the operations, each called with a Mapper for the active page table
Next ==
    \/ \E start \in PageNumbers, n \in 1 .. NumPages, fn \in 1 .. NumPages,
          flags \in FlagInputs :
          MapAllocatedPagesTo(from_current(current_p4), start, n, 4, fn, flags)
    \/ \E start \in PageNumbers, n \in 1 .. NumPages, flags \in FlagInputs,
          oom_at \in 0 .. NumPages :
          oom_at <= n /\ MapAllocatedPages(from_current(current_p4), start, n, flags, oom_at)
    \/ \E page_size \in PageSizes, flags \in FlagInputs :
          \E start \in HugeNumbers(page_size),
             n \in 1 .. Cardinality(HugeNumbers(page_size)),
             oom_at \in 0 .. Cardinality(HugeNumbers(page_size)) :
              oom_at <= n /\ MapAllocatedHugePages(from_current(current_p4), page_size,
                                                   start, n, flags, oom_at)
    \/ \E h \in mapped, new_flags \in FlagInputs :
          Remap(from_current(current_p4), h, new_flags)
    \/ \E h \in mapped, new_flags \in FlagInputs :
          RemapHuge(from_current(current_p4), h, new_flags)
    \/ \E h1 \in mapped, h2 \in mapped : Merge(h1, h2)
    \/ \E h1 \in mapped, h2 \in mapped : MergeHuge(h1, h2)
    \/ \E h \in mapped, opt_flags \in FlagInputs \cup {NoFlags},
          new_start \in PageNumbers \cup {NoFrame}, oom_at \in 0 .. NumPages :
          oom_at <= size_in_pages(h)
          /\ DeepCopy(from_current(current_p4), h, opt_flags, new_start, oom_at)
    \/ \E h \in mapped : Drop(h)
    \/ \E h \in mapped : DropHuge(h)

Spec == Init /\ [][Next]_vars

\* a system with two address spaces: the task that runs maps, remaps and
\* merges pages and keeps its handles, and the scheduler switches between
\* the two
NextP4 ==
    \/ \E start \in PageNumbers, n \in 1 .. NumPages, flags \in FlagInputs,
          oom_at \in 0 .. NumPages :
          oom_at <= n /\ MapAllocatedPages(from_current(current_p4), start, n, flags, oom_at)
    \/ \E h \in mapped, new_flags \in FlagInputs :
          Remap(from_current(current_p4), h, new_flags)
    \/ \E h1 \in mapped, h2 \in mapped : Merge(h1, h2)
    \/ \E p4 \in P4Frames : SwitchP4(p4)

SpecP4 == Init /\ [][NextP4]_vars

\* a system with two address spaces whose task maps and remaps pages with
\* Mappers made by Mapper::with_p4_frame for either P4 frame, the active one
\* or the other
NextMapper ==
    \/ \E p4 \in P4Frames, start \in PageNumbers, n \in 1 .. NumPages,
          flags \in FlagInputs :
          MapAllocatedPages(with_p4_frame(p4), start, n, flags, 0)
    \/ \E p4 \in P4Frames, start \in PageNumbers, n \in 1 .. NumPages,
          flags \in FlagInputs :
          MapAllocatedPagesTo(with_p4_frame(p4), start, n, 4, n, flags)
    \/ \E p4 \in P4Frames, h \in mapped, new_flags \in FlagInputs :
          Remap(with_p4_frame(p4), h, new_flags)
    \/ \E p4 \in P4Frames : SwitchP4(p4)

SpecMapper == Init /\ [][NextMapper]_vars

\* the values a store writes to a page
Values == 0 .. 1

\* a store of v through h.as_slice_mut::<u8>(..) into the k-th 4 KiB page of
\* the region of a MappedHugePages, as WriteSlice
WriteSliceHuge(h, k, v) ==
    LET f == translate_page(pte, current_p4,
                            h.start * huge_page_ratio(h.page_size) + k).frame
    IN  /\ CanStart(FALSE)
        /\ h \in mapped /\ h.kind = "MappedHugePages"
        /\ k \in 0 .. (size_in_pages(h) * huge_page_ratio(h.page_size) - 1)
        /\ IF ~ is_writable(h.flags)
           THEN /\ last' = Last("write", "NotWritable", h, <<>>)
                /\ UNCHANGED <<content, faulted>>
           ELSE IF f = NoFrame
           THEN /\ last' = Last("write", "Fault", h, <<>>)
                /\ faulted' = TRUE
                /\ UNCHANGED content
           ELSE /\ last' = Last("write", "Ok", h, <<>>)
                /\ content' = Store(content, f, v)
                /\ UNCHANGED faulted
        /\ UNCHANGED <<pte, current_p4, allocated_pages, mapped>>

\* a task that maps pages, writes to them, changes their flags and copies
\* them, and keeps its handles
NextCopy ==
    \/ \E start \in PageNumbers, n \in 1 .. NumPages, flags \in FlagInputs,
          oom_at \in 0 .. NumPages :
          oom_at <= n /\ MapAllocatedPages(from_current(current_p4), start, n, flags, oom_at)
    \/ \E h \in mapped, k \in 0 .. (NumPages - 1), v \in Values : WriteSlice(h, k, v)
    \/ \E h \in mapped, new_flags \in FlagInputs :
          Remap(from_current(current_p4), h, new_flags)
    \/ \E h \in mapped, opt_flags \in FlagInputs \cup {NoFlags},
          new_start \in PageNumbers \cup {NoFrame}, oom_at \in 0 .. NumPages :
          oom_at <= size_in_pages(h)
          /\ DeepCopy(from_current(current_p4), h, opt_flags, new_start, oom_at)

SpecCopy == Init /\ [][NextCopy]_vars

\* a task that maps huge pages of 4 KiB and of 2 MiB, writes to them and
\* copies them, and keeps its handles
NextCopyHuge ==
    \/ \E page_size \in {PAGE_SIZE, MB_2}, flags \in FlagInputs :
          \E start \in HugeNumbers(page_size), n \in 1 .. NumPages :
              MapAllocatedHugePages(from_current(current_p4), page_size, start, n,
                                    flags, 0)
    \/ \E h \in mapped, k \in 0 .. (NumPages - 1), v \in Values : WriteSliceHuge(h, k, v)
    \/ \E h \in mapped, opt_flags \in FlagInputs \cup {NoFlags} :
          \E new_start \in HugeNumbers(h.page_size) \cup {NoFrame},
             oom_at \in 0 .. NumPages :
              oom_at <= size_in_pages(h)
              /\ DeepCopyHuge(from_current(current_p4), h, opt_flags, new_start, oom_at)

SpecCopyHuge == Init /\ [][NextCopyHuge]_vars

\* two address spaces whose tasks map pages and huge pages and drop their
\* handles, whichever of the two is active
NextDrop ==
    \/ \E start \in PageNumbers, n \in 1 .. NumPages :
          MapAllocatedPages(from_current(current_p4), start, n, {WRITABLE}, 0)
    \/ \E start \in HugeNumbers(MB_2) :
          MapAllocatedHugePages(from_current(current_p4), MB_2, start, 1, {WRITABLE}, 0)
    \/ \E p4 \in P4Frames : SwitchP4(p4)
    \/ \E h \in mapped : Drop(h)
    \/ \E h \in mapped : DropHuge(h)

SpecDrop == Init /\ [][NextDrop]_vars

\* mapper.translate(virtual_address), the address given as page and offset:
\* the assert on the alignment of a huge leaf frame panics
Translate(page, offset) ==
    /\ CanStart(FALSE)
    /\ last' = Last("translate",
                    IF translate_page(pte, p4_mut(from_current(current_p4), current_p4),
                                      page).abort THEN "Panic"
                    ELSE IF translate(pte, p4_mut(from_current(current_p4), current_p4),
                                      page, offset)[1] = NoFrame THEN "None"
                    ELSE "Some",
                    [start |-> page, end |-> page],
                    << Event("translate",
                             translate(pte, p4_mut(from_current(current_p4), current_p4),
                                       page, offset)[1],
                             translate(pte, p4_mut(from_current(current_p4), current_p4),
                                       page, offset)[2]) >>)
    /\ faulted' = translate_page(pte, p4_mut(from_current(current_p4), current_p4),
                                 page).abort
    /\ UNCHANGED <<pte, current_p4, allocated_pages, mapped, content>>

\* the 4 KiB page with the given P3, P2 and P1 indices under P4 index 0
PageAt(i3, i2, i1) ==
    (i3 * ENTRIES_PER_PAGE_TABLE + i2) * ENTRIES_PER_PAGE_TABLE + i1

\* a page table whose entries are the given ones
TableOf(entries) ==
    [x \in { e[1] : e \in entries } |->
        (CHOOSE e \in entries : e[1] = x)[2]]

\* the flag sets of the entries of the page tables translated: present and
\* not present
EntryFlagInputs == { {PRESENT, WRITABLE}, {WRITABLE} }

\* the page tables that translate walks: the active P4 (frame 1) has a P3
\* table (frame 20) at index 0, whose entry 1 is a P2 table (frame 21) or a
\* 1 GiB leaf; entry 1 of the P2 table is a P1 table (frame 22) or a 2 MiB
\* leaf; entry 3 of the P1 table is a 4 KiB leaf.  The frame of a huge leaf
\* holds data that reads as a present entry.
TranslateTables ==
    { TableOf({ << <<1, 0>>, [frame |-> 20, flags |-> f4] >>,
                << <<20, 1>>, [frame |-> 21, flags |-> f3] >>,
                << <<21, 1>>, [frame |-> 22, flags |-> f2] >>,
                << <<22, 3>>, [frame |-> frame, flags |-> f1] >> }) :
        f4 \in EntryFlagInputs, f3 \in EntryFlagInputs, f2 \in EntryFlagInputs,
        f1 \in EntryFlagInputs, frame \in {40, 41} }
    \cup
    { TableOf({ << <<1, 0>>, [frame |-> 20, flags |-> f4] >>,
                << <<20, 1>>, [frame |-> 21, flags |-> f3] >>,
                << <<21, 1>>, [frame |-> frame, flags |-> f2 \cup {HUGE_PAGE}] >>,
                << <<frame, 3>>, [frame |-> 40, flags |-> {PRESENT}] >> }) :
        f4 \in EntryFlagInputs, f3 \in EntryFlagInputs, f2 \in EntryFlagInputs,
        frame \in {ENTRIES_PER_PAGE_TABLE, 2 * ENTRIES_PER_PAGE_TABLE,
                   ENTRIES_PER_PAGE_TABLE + 1} }
    \cup
    { TableOf({ << <<1, 0>>, [frame |-> 20, flags |-> f4] >>,
                << <<20, 1>>, [frame |-> frame, flags |-> f3 \cup {HUGE_PAGE}] >>,
                << <<frame, 1>>, [frame |-> 22, flags |-> {PRESENT}] >>,
                << <<22, 3>>, [frame |-> 40, flags |-> {PRESENT}] >> }) :
        f4 \in EntryFlagInputs, f3 \in EntryFlagInputs,
        frame \in {ENTRIES_PER_PAGE_TABLE * ENTRIES_PER_PAGE_TABLE,
                   2 * ENTRIES_PER_PAGE_TABLE * ENTRIES_PER_PAGE_TABLE,
                   ENTRIES_PER_PAGE_TABLE * ENTRIES_PER_PAGE_TABLE + ENTRIES_PER_PAGE_TABLE} }

\* the pages translated: inside and outside the ranges of the leaves
TranslatePages ==
    { PageAt(1, 1, 3), PageAt(1, 1, 0), PageAt(1, 1, ENTRIES_PER_PAGE_TABLE - 1),
      PageAt(1, 0, 3), PageAt(1, 2, 5), PageAt(0, 1, 3), PageAt(2, 0, 0) }

\* the offsets in the page of the addresses translated
TranslateOffsets == {0, PAGE_SIZE - 1}

\* an address space set up with one of the page tables
InitTranslate ==
    /\ pte \in TranslateTables
    /\ current_p4 = 1
    /\ allocated_pages = {}
    /\ mapped = {}
    /\ content = << >>
    /\ faulted = FALSE
    /\ last = Last("init", "Ok", NoHandle, <<>>)

NextTranslate ==
    \E page \in TranslatePages, offset \in TranslateOffsets : Translate(page, offset)

SpecTranslate == InitTranslate /\ [][NextTranslate]_vars

\* the offsets and lengths callers pass to the view functions: small ones
\* around the size of a page, and ones near the top of the 64-bit range
Offsets ==
    { usize(0), usize(PAGE_SIZE - 8), usize(PAGE_SIZE - 7),
      << LimbBase - 8, LimbBase - 1, LimbBase - 1, LimbBase - 1 >> }

Lengths ==
    { usize(PAGE_SIZE), usize(PAGE_SIZE + 1), << 0, 0, 0, LimbBase \div 8 >> }

\* size_of::<T>() of the types viewed: u8 and u64
TypeSizes == {1, 8}

\* a task that maps pages and huge pages, changes their flags and asks for
\* views of them
NextView ==
    \/ \E start \in PageNumbers, n \in 1 .. NumPages, flags \in FlagInputs :
          MapAllocatedPages(from_current(current_p4), start, n, flags, 0)
    \/ \E start \in HugeNumbers(MB_2), flags \in FlagInputs :
          MapAllocatedHugePages(from_current(current_p4), MB_2, start, 1, flags, 0)
    \/ \E h \in mapped, new_flags \in FlagInputs \cup {{PRESENT}} :
          Remap(from_current(current_p4), h, new_flags)
    \/ \E h \in mapped, new_flags \in FlagInputs :
          RemapHuge(from_current(current_p4), h, new_flags)
    \/ \E h \in mapped, offset \in Offsets, size \in TypeSizes, oc \in BOOLEAN :
          AsType(h, offset, size, oc)
    \/ \E h \in mapped, offset \in Offsets, size \in TypeSizes, oc \in BOOLEAN :
          AsTypeMut(h, offset, size, oc)
    \/ \E h \in mapped, offset \in Offsets, length \in Lengths, size \in TypeSizes,
          oc \in BOOLEAN :
          AsSlice(h, offset, length, size, oc)
    \/ \E h \in mapped, offset \in Offsets, length \in Lengths, size \in TypeSizes,
          oc \in BOOLEAN :
          AsSliceMut(h, offset, length, size, oc)
    \/ \E h \in mapped, offset \in Offsets, space \in {usize(0), usize(1)},
          oc \in BOOLEAN :
          AsFunc(h, offset, space, oc)

SpecView == Init /\ [][NextView]_vars

\* what write_relocation leaves: the memory and the result, with the
\* arguments of the call
RelocationReturns(h, typ, addend, offset, mp_offset, source, r) ==
    /\ content' = r.mem
    /\ faulted' = (r.result \in {"Panic", "Fault"})
    /\ last' = Last("write_relocation", r.result, h,
                    << Event("entry", typ, addend), Event("target", mp_offset, offset),
                       Event("source", source, source) >>)
    /\ UNCHANGED <<pte, current_p4, allocated_pages, mapped>>

\* the offsets in a page of the section bytes that the loader copies
SectionBytes == (0 .. 11) \cup ((PAGE_SIZE - 8) .. (PAGE_SIZE - 1))

\* write_relocation on the live handle h
WriteRelocation(h, typ, addend, offset, mp_offset, source, overflow_checks) ==
    /\ CanStart(FALSE)
    /\ h \in mapped
    /\ RelocationReturns(h, typ, addend, offset, mp_offset, source,
                         write_relocation(content, pte,
                                          p4_mut(from_current(current_p4), current_p4),
                                          [typ |-> typ, addend |-> addend,
                                           offset |-> offset],
                                          h, mp_offset, source, overflow_checks))

\* the loader copies the bytes of a section into the first page of h through
\* as_slice_mut: the bytes at the start and at the end of the page become 165
LoadSection(h) ==
    /\ CanStart(FALSE)
    /\ h \in mapped /\ h.kind = "MappedPages" /\ is_writable(h.flags)
    /\ \A k \in SectionBytes : PhysicalOf(pte, current_p4, usize(h.start * PAGE_SIZE + k)) # NoFrame
    /\ content' = [x \in DOMAIN content
                           \cup { PhysicalOf(pte, current_p4, usize(h.start * PAGE_SIZE + k)) :
                                    k \in SectionBytes }
                     |-> IF x \in DOMAIN content THEN content[x] ELSE 165]
    /\ last' = Last("load", "Ok", h, <<>>)
    /\ UNCHANGED <<pte, current_p4, allocated_pages, mapped, faulted>>

\* the type codes of the entries: the five supported ones and R_X86_64_GOTPCREL
RelocationTypes ==
    { R_X86_64_64, R_X86_64_PC32, R_X86_64_PLT32, R_X86_64_32, R_X86_64_PC64, 9 }

\* the addends of the entries: 16 and -1
Addends == { usize(16), USIZE_MAX }

\* the offsets of the entry in the section and of the section in the mapped
\* pages: inside the pages, across their end, and near the top of the range
EntryOffsets ==
    { usize(0), usize(PAGE_SIZE - 4), usize(PAGE_SIZE - 2),
      << LimbBase - 4, LimbBase - 1, LimbBase - 1, LimbBase - 1 >> }
SectionOffsets == { usize(0), usize(4) }

\* the addresses of the source sections: in the lower and in the upper half
SourceAddresses ==
    { << 22136, 4660, 0, 0 >>, << 4096, 0, LimbBase \div 2, LimbBase - 1 >> }

\* a loader that maps the pages of sections, copies the sections into them
\* and then writes one relocation
NextRelocation ==
    \/ /\ last.op # "write_relocation"
       /\ \E start \in PageNumbers, flags \in {{WRITABLE}, {PRESENT}} :
             MapAllocatedPages(from_current(current_p4), start, 1, flags, 0)
    \/ /\ last.op # "write_relocation"
       /\ \E h \in mapped : DOMAIN content = {} /\ LoadSection(h)
    \/ /\ last.op # "write_relocation"
       /\ \E h \in mapped, typ \in RelocationTypes, addend \in Addends,
             offset \in EntryOffsets, mp_offset \in SectionOffsets,
             source \in SourceAddresses, oc \in BOOLEAN :
             WriteRelocation(h, typ, addend, offset, mp_offset, source, oc)

SpecRelocation == Init /\ [][NextRelocation]_vars

\* the numbers of sections of a crate
MaxSections == 2

SectionTypes == {"Text", "Rodata", "Data", "Bss", "GccExceptTable", "EhFrame"}

\* the section of another crate that the sections of a crate depend on: it
\* lies at an address of its own and has no dependents yet
ForeignSections ==
    [ x \in { SectionRef("other", 1) } |->
        with_dependencies("Text", "callee", NoHandle, 0, 24576, 32, TRUE, "other",
                          <<>>, <<>>, <<>>) ]

\* the relocation entries of the dependencies: one absolute, one relative
RelocationInputs ==
    { [typ |-> R_X86_64_64, addend |-> usize(16), offset |-> usize(0)],
      [typ |-> R_X86_64_PC32, addend |-> usize(16), offset |-> usize(8)] }

\* the dependencies of a section on the section of the other crate
StrongInputs ==
    { <<>> } \cup { << [section |-> SectionRef("other", 1), relocation |-> r] >> :
                      r \in RelocationInputs }

\* the dependencies of a section on sections of its own crate
InternalInputs ==
    { <<>> } \cup { << [relocation |-> r, source_sec_shndx |-> i] >> :
                      r \in {[typ |-> R_X86_64_PC32, addend |-> usize(16),
                              offset |-> usize(8)]},
                      i \in 1 .. MaxSections }

\* the regions of a loaded crate over the live handles: each region is
\* absent or one handle with the addresses of its pages, no handle twice
RegionInputs ==
    { r \in [{"text", "rodata", "data"} -> mapped \cup {NoHandle}] :
        /\ \A h \in mapped : h.kind = "MappedPages" /\ h.page_table_p4 = current_p4
        /\ \A a, b \in DOMAIN r : a # b /\ r[a] # NoHandle => r[a] # r[b] }

\* the region of a crate made of a handle
RangeOf(h) ==
    IF h = NoHandle THEN NoRange
    ELSE [mp |-> h, start |-> h.start * PAGE_SIZE, end |-> (h.end + 1) * PAGE_SIZE]

\* the sections of a loaded crate with the regions r: every section lies in
\* the region for its type, 16 bytes in, and has the dependencies given; the
\* sections of one crate are of one type
SectionInputs(r, crate) ==
    { [ i \in indices |->
          with_dependencies(x[1], "s", RegionOf(x[1], r["text"], r["rodata"], r["data"]),
                            16, RegionOf(x[1], r["text"], r["rodata"],
                                         r["data"]).start * PAGE_SIZE + 16,
                            16, TRUE, crate, x[2], <<>>, x[3]) ] :
        indices \in { {}, {1}, {1, 2} },
        x \in { t \in SectionTypes :
                  RegionOf(t, r["text"], r["rodata"], r["data"]) # NoHandle }
                  \X StrongInputs \X InternalInputs }

\* the loaded crates over the live handles
CrateInputs ==
    UNION { { [id |-> "self", crate_name |-> "c", text_pages |-> RangeOf(r["text"]),
               rodata_pages |-> RangeOf(r["rodata"]), data_pages |-> RangeOf(r["data"]),
               sections |-> sections,
               bss_sections |-> { i \in DOMAIN sections : sections[i].typ = "Bss" }] :
                sections \in SectionInputs(r, "self") } :
            r \in RegionInputs }

\* the pages that the page allocator returns for the copies of the regions
\* of a crate: a free range of the size of the first region, and none for
\* the regions after it, the allocator being as small as it is here
AllocatorInputs(self) ==
    LET regions == << self.text_pages, self.rodata_pages, self.data_pages >>
        first == CHOOSE k \in 1 .. 4 :
                     /\ k < 4 => regions[k] # NoRange
                     /\ \A j \in 1 .. (k - 1) : regions[j] = NoRange
        free == IF first = 4 THEN {}
                ELSE { s \in PageNumbers :
                         CanAllocate("AllocatedPages", PAGE_SIZE, s,
                                     size_in_pages(regions[first].mp)) }
    IN  { [k \in 1 .. 3 |-> IF k = first THEN s ELSE NoFrame] :
            s \in IF free = {} THEN {NoFrame} ELSE free }

\* self.deep_copy(page_table, allocator) on a LoadedCrate
LoadedCrateDeepCopy(mapper, self, foreign, new_start, oom_at, oc) ==
    /\ CanStart(FALSE)
    /\ \A r \in { LoadedCrate_deep_copy(pte, Held, content, current_p4, mapper, self,
                                        foreign, "copy", new_start, oom_at, oc) } :
          /\ pte' = r.pt
          /\ content' = r.mem
          /\ faulted' = r.fault
          /\ mapped' = mapped \cup r.live
          /\ allocated_pages' = allocated_pages \cup UNION { Units(h) : h \in r.live }
          /\ last' = Last("LoadedCrate::deep_copy", r.result, NoHandle,
                          << Event("crate", self, r.new_crate),
                             Event("foreign", foreign, r.foreign) >> \o r.events)
    /\ UNCHANGED <<current_p4>>

\* self.copy_section_data_to(destination_section) on a LoadedSection
CopySectionDataTo(self, destination_section, oc) ==
    LET r == copy_section_data_to(content, pte,
                                  p4_mut(from_current(current_p4), current_p4),
                                  self, destination_section, oc)
    IN  /\ CanStart(FALSE)
        /\ content' = r.mem
        /\ faulted' = (r.result \in {"Fault", "Panic"})
        /\ last' = Last("copy_section_data_to", r.result, NoHandle,
                        << Event("sections", self, destination_section) >>)
        /\ UNCHANGED <<pte, current_p4, allocated_pages, mapped>>

\* the sections that copy_section_data_to is called on: in one of the live
\* regions, at the start or 16 bytes in, of 8 or 16 bytes
SectionsOf(h) ==
    { with_dependencies("Data", "s", h, offset, h.start * PAGE_SIZE + offset, size,
                        TRUE, "self", <<>>, <<>>, <<>>) :
        offset \in {0, 16}, size \in {8, 16} }

\* a thread that loads a crate: it maps regions and loads a section, and
\* then copies the crate or the data of a section, which ends the run (a
\* thread that waits for a lock takes no further step in any case)
NextCrate ==
    \/ /\ last.op \in {"init", "map", "load"}
       /\ \E start \in PageNumbers, flags \in {DATA_BSS_SECTION_FLAGS, TEXT_SECTION_FLAGS} :
             MapAllocatedPages(from_current(current_p4), start, 1, flags, 0)
    \/ /\ last.op \in {"init", "map", "load"}
       /\ \E h \in mapped : DOMAIN content = {} /\ LoadSection(h)
    \/ /\ last.op \in {"init", "map", "load"}
       /\ \E self \in CrateInputs : \E new_start \in AllocatorInputs(self) :
             LoadedCrateDeepCopy(from_current(current_p4), self, ForeignSections,
                                 new_start, 0, TRUE)
    \/ /\ last.op \in {"init", "map", "load"}
       /\ \E h1 \in mapped, h2 \in mapped :
             \E self \in SectionsOf(h1), destination_section \in SectionsOf(h2) :
                 CopySectionDataTo(self, destination_section, TRUE)

SpecCrate == Init /\ [][NextCrate]_vars

\* r.address_at_offset(offset) on a PageRange or HugePageRange r
AddressAtOffset(r, offset) ==
    /\ last' = Last("address_at_offset", address_at_offset(r, offset).result, r,
                    << Event("range", r.page_size, size_in_bytes(r)),
                       Event("offset", offset, address_at_offset(r, offset).address) >>)
    /\ UNCHANGED <<pte, current_p4, allocated_pages, mapped, content, faulted>>

\* the ranges asked: of one and two pages, and the empty range (1, 0)
RangeInputs ==
    { [start |-> a, end |-> b, page_size |-> page_size] :
        a \in 0 .. 2, b \in 0 .. 2, page_size \in {PAGE_SIZE, MB_2} }
      \ { r \in [start : 0 .. 2, end : 0 .. 2, page_size : {PAGE_SIZE, MB_2}] :
            r.end + 1 < r.start }

\* the offsets asked: around the sizes of the ranges
OffsetInputs ==
    { 0, 1, PAGE_SIZE - 1, PAGE_SIZE, PAGE_SIZE + 1, 2 * PAGE_SIZE - 1, 2 * PAGE_SIZE,
      2 * PAGE_SIZE + 1, 3 * PAGE_SIZE, MB_2 - 1, MB_2, MB_2 + 1, 2 * MB_2 - 1,
      2 * MB_2, 2 * MB_2 + 1, 3 * MB_2, 3 * MB_2 + 1 }

NextRange ==
    \E r \in RangeInputs, offset \in OffsetInputs : AddressAtOffset(r, offset)

SpecRange == Init /\ [][NextRange]_vars

\* CrateType::from_module_name(module_name), called once
FromModuleName(module_name) ==
    /\ last.op = "init"
    /\ last' = Last("from_module_name", from_module_name(module_name).result, NoHandle,
                    << Event("name", module_name, from_module_name(module_name).value) >>)
    /\ UNCHANGED <<pte, current_p4, allocated_pages, mapped, content, faulted>>

\* the module names parsed: the strings of at most MaxNameLen characters over
\* the three type letters, another letter and the delimiter
ModuleNames ==
    UNION { [1 .. n -> {"k", "a", "u", "x", "#"}] : n \in 0 .. MaxNameLen }

NextName == \E module_name \in ModuleNames : FromModuleName(module_name)

SpecName == Init /\ [][NextName]_vars

\* the flag sets callers pass, HUGE_PAGE among them
CallerFlags == FlagInputs \cup { {WRITABLE, NO_EXECUTE, HUGE_PAGE} }

\* a task that maps pages and huge pages with any flags and changes the
\* flags of its mappings
NextFlags ==
    \/ \E start \in PageNumbers, n \in 1 .. NumPages, fn \in 1 .. NumPages,
          flags \in CallerFlags :
          MapAllocatedPagesTo(from_current(current_p4), start, n, 4, fn, flags)
    \/ \E start \in PageNumbers, n \in 1 .. NumPages, flags \in CallerFlags :
          MapAllocatedPages(from_current(current_p4), start, n, flags, 0)
    \/ \E page_size \in PageSizes, flags \in CallerFlags :
          \E start \in HugeNumbers(page_size),
             n \in 1 .. Cardinality(HugeNumbers(page_size)) :
              MapAllocatedHugePages(from_current(current_p4), page_size, start, n, flags, 0)
    \/ \E h \in mapped, new_flags \in CallerFlags :
          Remap(from_current(current_p4), h, new_flags)
    \/ \E h \in mapped, new_flags \in CallerFlags :
          RemapHuge(from_current(current_p4), h, new_flags)

SpecFlags == Init /\ [][NextFlags]_vars

\* VirtualAddress::new(virt_addr)
VirtualAddressNew(virt_addr) ==
    /\ last' = Last("new", new(virt_addr).result, NoHandle,
                    << Event("value", virt_addr, new(virt_addr).value) >>)
    /\ UNCHANGED <<pte, current_p4, allocated_pages, mapped, content, faulted>>

\* VirtualAddress::new_canonical(virt_addr)
VirtualAddressNewCanonical(virt_addr) ==
    /\ last' = Last("new_canonical", "Ok", NoHandle,
                    << Event("value", virt_addr, new_canonical(virt_addr)) >>)
    /\ UNCHANGED <<pte, current_p4, allocated_pages, mapped, content, faulted>>

\* the addresses given to VirtualAddress::new and new_canonical: bit 47 and
\* bits 48..64 clear, set and mixed, over several low bits
Addresses ==
    { << l1, l2, l3, l4 >> :
        l1 \in {0, 43981}, l2 \in {0, LimbBase - 1},
        l3 \in {0, LimbBase \div 2 - 1, LimbBase \div 2, LimbBase - 1},
        l4 \in {0, 1, LimbBase \div 2, LimbBase - 2, LimbBase - 1} }

NextAddress ==
    \/ \E virt_addr \in Addresses : VirtualAddressNew(virt_addr)
    \/ \E virt_addr \in Addresses : VirtualAddressNewCanonical(virt_addr)

SpecAddress == Init /\ [][NextAddress]_vars

\* what an operation on addresses leaves: its operands and the value it
\* returned
ArithmeticReturns(op, result, a, rhs, value) ==
    Last(op, result, NoHandle,
         << Event("operands", a, rhs), Event("value", value, value) >>)

\* a + rhs, a += rhs, a - rhs and a -= rhs on a VirtualAddress, rhs a usize
VirtualAddressAdd(a, rhs) ==
    /\ last.op = "init"
    /\ last' = ArithmeticReturns("VirtualAddress + usize", "Ok", a, rhs, VirtualAddress_add(a, rhs))
    /\ UNCHANGED <<pte, current_p4, allocated_pages, mapped, content, faulted>>

VirtualAddressSub(a, rhs) ==
    /\ last.op = "init"
    /\ last' = ArithmeticReturns("VirtualAddress - usize", "Ok", a, rhs, VirtualAddress_sub(a, rhs))
    /\ UNCHANGED <<pte, current_p4, allocated_pages, mapped, content, faulted>>

\* a + rhs, a += rhs, a - rhs and a -= rhs on two addresses of one kind
\* (VirtualAddress or PhysicalAddress), in a build with or without overflow
\* checks
DerivedAdd(kind, a, rhs, overflow_checks) ==
    /\ last.op = "init"
    /\ last' = ArithmeticReturns(kind \o " + " \o kind, derived_add(a, rhs, overflow_checks).result,
                          a, rhs, derived_add(a, rhs, overflow_checks).value)
    /\ UNCHANGED <<pte, current_p4, allocated_pages, mapped, content, faulted>>

DerivedSub(kind, a, rhs, overflow_checks) ==
    /\ last.op = "init"
    /\ last' = ArithmeticReturns(kind \o " - " \o kind, derived_sub(a, rhs, overflow_checks).result,
                          a, rhs, derived_sub(a, rhs, overflow_checks).value)
    /\ UNCHANGED <<pte, current_p4, allocated_pages, mapped, content, faulted>>

\* PhysicalAddress::new(phys_addr) and PhysicalAddress::new_canonical(phys_addr)
PhysicalAddressNew(phys_addr) ==
    /\ last.op = "init"
    /\ last' = ArithmeticReturns("PhysicalAddress::new", PhysicalAddress_new(phys_addr).result,
                          phys_addr, phys_addr, PhysicalAddress_new(phys_addr).value)
    /\ UNCHANGED <<pte, current_p4, allocated_pages, mapped, content, faulted>>

PhysicalAddressNewCanonical(phys_addr) ==
    /\ last.op = "init"
    /\ last' = ArithmeticReturns("PhysicalAddress::new_canonical", "Ok", phys_addr, phys_addr,
                          PhysicalAddress_new_canonical(phys_addr))
    /\ UNCHANGED <<pte, current_p4, allocated_pages, mapped, content, faulted>>

\* a + rhs, a += rhs, a - rhs and a -= rhs on a PhysicalAddress, rhs a usize
PhysicalAddressAdd(a, rhs) ==
    /\ last.op = "init"
    /\ last' = ArithmeticReturns("PhysicalAddress + usize", "Ok", a, rhs, PhysicalAddress_add(a, rhs))
    /\ UNCHANGED <<pte, current_p4, allocated_pages, mapped, content, faulted>>

PhysicalAddressSub(a, rhs) ==
    /\ last.op = "init"
    /\ last' = ArithmeticReturns("PhysicalAddress - usize", "Ok", a, rhs, PhysicalAddress_sub(a, rhs))
    /\ UNCHANGED <<pte, current_p4, allocated_pages, mapped, content, faulted>>

\* the usize operands of the arithmetic: small ones, ones around bit 47 and
\* bit 52, and the largest
Operands ==
    { usize(0), usize(1), usize(PAGE_SIZE),
      << 0, 0, LimbBase \div 2, 0 >>, << LimbBase - 1, LimbBase - 1, LimbBase \div 2 - 1, 0 >>,
      << 0, 0, 0, 8 >>, << LimbBase - 1, LimbBase - 1, LimbBase - 1, 15 >>,
      << 0, 0, LimbBase \div 2, LimbBase - 1 >>, USIZE_MAX }

\* the addresses that VirtualAddress::new and PhysicalAddress::new return
VirtualAddresses == { a \in Operands : new(a).result = "Ok" }
PhysicalAddresses == { a \in Operands : PhysicalAddress_new(a).result = "Ok" }

\* a caller that computes with addresses
NextArithmetic ==
    \/ \E a \in VirtualAddresses, rhs \in Operands : VirtualAddressAdd(a, rhs)
    \/ \E a \in VirtualAddresses, rhs \in Operands : VirtualAddressSub(a, rhs)
    \/ \E a \in VirtualAddresses, rhs \in VirtualAddresses, overflow_checks \in BOOLEAN :
          DerivedAdd("VirtualAddress", a, rhs, overflow_checks)
    \/ \E a \in VirtualAddresses, rhs \in VirtualAddresses, overflow_checks \in BOOLEAN :
          DerivedSub("VirtualAddress", a, rhs, overflow_checks)
    \/ \E phys_addr \in Operands : PhysicalAddressNew(phys_addr)
    \/ \E phys_addr \in Operands : PhysicalAddressNewCanonical(phys_addr)
    \/ \E a \in PhysicalAddresses, rhs \in Operands : PhysicalAddressAdd(a, rhs)
    \/ \E a \in PhysicalAddresses, rhs \in Operands : PhysicalAddressSub(a, rhs)
    \/ \E a \in PhysicalAddresses, rhs \in PhysicalAddresses, overflow_checks \in BOOLEAN :
          DerivedAdd("PhysicalAddress", a, rhs, overflow_checks)
    \/ \E a \in PhysicalAddresses, rhs \in PhysicalAddresses, overflow_checks \in BOOLEAN :
          DerivedSub("PhysicalAddress", a, rhs, overflow_checks)

SpecArithmetic == Init /\ [][NextArithmetic]_vars

\* what a page-size constructor leaves: its result and the ratio of the size
\* it made
SizeReturns(op, page_size_in_bytes, edx, r) ==
    Last(op, r.result, NoHandle,
         << Event("cpuid", page_size_in_bytes, edx),
            Event("ratio", r.value,
                  IF r.result = "Ok" THEN huge_page_ratio(r.value) ELSE 0) >>)

\* HugePageSize::new(page_size_in_bytes) on a CPU reporting edx, then
\* huge_page_ratio of the size made
HugePageSizeNew(page_size_in_bytes, edx) ==
    /\ last' = SizeReturns("HugePageSize::new", page_size_in_bytes, edx,
                           HugePageSize_new(page_size_in_bytes, edx))
    /\ UNCHANGED <<pte, current_p4, allocated_pages, mapped, content, faulted>>

\* PageSize::new(page_size_in_bytes) on a CPU reporting edx, then
\* huge_page_ratio of the size made
PageSizeNew(page_size_in_bytes, edx) ==
    /\ last' = SizeReturns("PageSize::new", page_size_in_bytes, edx,
                           PageSize_new(page_size_in_bytes, edx))
    /\ UNCHANGED <<pte, current_p4, allocated_pages, mapped, content, faulted>>

\* the sizes requested: the three page sizes, their neighbours and multiples
SizeInputs ==
    { 0, 1, 4095, 4096, 4097, 2 * 4096, MB_2 - 1, MB_2, 2 * MB_2,
      GB_1 - 1, GB_1, GB_1 + 4096 }

\* the EDX values of CPUID leaf 0x80000001: bit 26 clear and set, among
\* other bits
EdxInputs == { 0, 2 ^ 26, 2 ^ 26 - 1, 2 ^ 27, 2 ^ 26 + 2 ^ 27 + 1 }

NextSize ==
    \/ \E s \in SizeInputs, edx \in EdxInputs : HugePageSizeNew(s, edx)
    \/ \E s \in SizeInputs, edx \in EdxInputs : PageSizeNew(s, edx)

SpecSize == Init /\ [][NextSize]_vars

----------------------------------------------------------------------------
(* Observations on the page table used by the properties *)

\* the P1 entry of a 4 KiB page, reached as remap and unmap reach it
\* (an unused entry when a table of the path is missing)
LeafOf(pt, root, page) ==
    IF WalkToP1(pt, root, page) = NoFrame THEN Unused
    ELSE EntryAt(pt, WalkToP1(pt, root, page), p1_index(page, PAGE_SIZE))

\* the P4, P3 and P2 entries on the path to a 4 KiB page
AncestorsOf(pt, root, page) ==
    LET p3 == next_table(pt, root, p4_index(page, PAGE_SIZE))
        p2 == next_table(pt, p3, p3_index(page, PAGE_SIZE))
    IN  { EntryAt(pt, root, p4_index(page, PAGE_SIZE)),
          EntryAt(pt, p3, p3_index(page, PAGE_SIZE)),
          EntryAt(pt, p2, p2_index(page, PAGE_SIZE)) }

\* the leaf entry of a page of the given size: in the P1 table for 4 KiB,
\* in the P2 table for 2 MiB, in the P3 table for 1 GiB
LeafOfSize(pt, root, page, page_size) ==
    LET p3 == next_table(pt, root, p4_index(page, page_size))
        p2 == next_table(pt, p3, p3_index(page, page_size))
        p1 == next_table(pt, p2, p2_index(page, page_size))
    IN  IF page_size = GB_1 THEN EntryAt(pt, p3, p3_index(page, page_size))
        ELSE IF page_size = MB_2 THEN EntryAt(pt, p2, p2_index(page, page_size))
        ELSE EntryAt(pt, p1, p1_index(page, page_size))

\* the pages of a handle
PagesOf(h) == h.start .. h.end

\* the 4 KiB page at which a page of the given size starts
FirstPageOf(page, page_size) == page * huge_page_ratio(page_size)

----------------------------------------------------------------------------
(* Properties *)

LiveHandleIsMapped ==
    \A h \in mapped :
        \A p \in PagesOf(h) :
            LET e == LeafOfSize(pte, h.page_table_p4, p, h.page_size)
            IN  /\ PRESENT \in e.flags
                /\ e.flags \ {HUGE_PAGE} = h.flags \cup {PRESENT}

\* C2 for the MappedPages alone
LiveMappedPagesIsMapped ==
    \A h \in mapped :
        h.kind = "MappedPages" =>
            \A p \in PagesOf(h) :
                LeafOf(pte, h.page_table_p4, p).flags = h.flags \cup {PRESENT}

\* C3: after map_allocated_huge_pages returned Ok, each huge page of the new
\* handle has a present leaf at the level of its size (HUGE_PAGE set exactly
\* on a 2 MiB or 1 GiB leaf) that points at the first frame of the block
\* allocated for it, and the page's start address translates to that frame.
MapHugeSetsLeaf ==
    [][ (last'.op = "map_huge" /\ last'.result = "Ok") =>
          \A h \in mapped' \ mapped :
              \A k \in 1 .. size_in_pages(h) :
                  LET p == h.start + k - 1
                      e == LeafOfSize(pte', h.page_table_p4, p, h.page_size)
                  IN  /\ PRESENT \in e.flags
                      /\ e.frame = h.frames[k]
                      /\ (HUGE_PAGE \in e.flags) <=> (h.page_size # PAGE_SIZE)
                      /\ translate(pte', current_p4', FirstPageOf(p, h.page_size), 0)
                            = <<h.frames[k], 0>> ]_vars

\* C4: a map_allocated_pages_to or map_allocated_pages that returns an error
\* after its loop started leaves every leaf entry as it was.
FailedMapLeavesLeaves ==
    [][ (last'.op \in {"map", "map_to"}
         /\ last'.result \in {"AlreadyMapped", "OutOfMemory"}) =>
          \A root \in P4Frames, p \in PageNumbers :
              LeafOf(pte', root, p) = LeafOf(pte, root, p) ]_vars

\* C5: map_allocated_pages_to returns the page-count-mismatch error exactly
\* when the number of pages differs from the number of frames, and then the
\* page table is untouched: no entry written, no table created.
PageCountMismatchExact ==
    [][ \A start \in PageNumbers, n \in 1 .. NumPages, fn \in 1 .. NumPages,
           flags \in FlagInputs :
           MapAllocatedPagesTo(from_current(current_p4), start, n, 4, fn, flags) =>
               /\ (last'.result = "PageCountMismatch") <=> (n # fn)
               /\ (n # fn) => (pte' = pte /\ mapped' = mapped) ]_vars

\* map_allocated_pages_to has refused two ranges of different length
PageCountMismatchWitness ==
    last.op = "map_to" /\ last.result = "PageCountMismatch"

\* C6: after remap(new_flags) returned Ok on a non-empty MappedPages, every
\* page of the handle has its P1 entry at the same frame with flags
\* new_flags | PRESENT, no P4/P3/P2 entry on its path has NO_EXECUTE, the
\* handle's flags are new_flags, and the P1 entries of the other pages are
\* as before.
RemapSetsFlags ==
    [][ \A h \in mapped, new_flags \in FlagInputs :
           (Remap(from_current(current_p4), h, new_flags)
            /\ last'.result = "Ok" /\ size_in_pages(h) # 0) =>
               /\ \A p \in PagesOf(h) :
                     /\ LeafOf(pte', current_p4, p).frame = LeafOf(pte, current_p4, p).frame
                     /\ LeafOf(pte', current_p4, p).flags = new_flags \cup {PRESENT}
                     /\ \A a \in AncestorsOf(pte', current_p4, p) : NO_EXECUTE \notin a.flags
               /\ [h EXCEPT !.flags = new_flags] \in mapped'
               /\ h.flags # new_flags => h \notin mapped'
               /\ \A root \in P4Frames, p \in PageNumbers \ PagesOf(h) :
                     LeafOf(pte', root, p) = LeafOf(pte, root, p) ]_vars

\* a remap that rewrote entries has returned Ok
RemapSetsFlagsWitness ==
    /\ last.op = "remap" /\ last.result = "Ok" /\ last.events # <<>>
    /\ \E h \in mapped : h.kind = "MappedPages" /\ h.start = last.start

\* C7: remap with the handle's current flags returns Ok, changes no
\* page-table entry, issues no invlpg and no shootdown, and leaves the
\* handle as it is (MappedPages and MappedHugePages).
RemapSameFlagsNoOp ==
    [][ \A h \in mapped :
           (\/ Remap(from_current(current_p4), h, h.flags)
            \/ RemapHuge(from_current(current_p4), h, h.flags)) =>
               /\ last'.result = "Ok"
               /\ pte' = pte
               /\ last'.events = <<>>
               /\ mapped' = mapped ]_vars

\* a remap of a live handle has returned Ok without any TLB event
RemapSameFlagsWitness ==
    /\ last.op \in {"remap", "remap_huge"} /\ last.result = "Ok" /\ last.events = <<>>
    /\ \E h \in mapped : h.start = last.start /\ size_in_pages(h) # 0

\* C8: m1.merge(m2) of adjacent MappedPages with the same flags and P4
\* returns Ok, m1 then covers both ranges with its flags, m2 is gone, no
\* page-table entry changed and no page was released; and a drop that unmaps
\* leaves no page of the dropped range translated.
MergeSuccess ==
    [][ /\ \A h1 \in mapped, h2 \in mapped :
              (Merge(h1, h2) /\ h2.start = h1.end + 1 /\ h2.flags = h1.flags
               /\ h2.page_table_p4 = h1.page_table_p4) =>
                  /\ last'.result = "Ok"
                  /\ \E m \in mapped' :
                        /\ m.start = h1.start /\ m.end = h2.end
                        /\ m.flags = h1.flags /\ m.page_table_p4 = h1.page_table_p4
                        /\ mapped' = (mapped \ {h1, h2}) \cup {m}
                  /\ pte' = pte
                  /\ allocated_pages' = allocated_pages
        /\ \A h \in mapped :
              (Drop(h) /\ drop_unmaps(h, current_p4)) =>
                  \A p \in PagesOf(h) :
                      translate(pte', current_p4', p, 0) = <<NoFrame, 0>> ]_vars

\* a merge has returned Ok and the merged handle covers two pages
MergeSuccessWitness ==
    /\ last.op = "merge" /\ last.result = "Ok"
    /\ \E m \in mapped : m.start = last.start /\ m.end > last.end

\* C9: a merge of MappedPages that differ in P4 frame, in flags or are not
\* adjacent returns the first error that applies in that order, and changes
\* neither of the two handles, nor a page-table entry, nor the pages handed
\* out.
MergeFailure ==
    [][ \A h1 \in mapped, h2 \in mapped :
           Merge(h1, h2) =>
               LET expected ==
                       IF h2.page_table_p4 # h1.page_table_p4 THEN "MergeDifferentTable"
                       ELSE IF h2.flags # h1.flags THEN "MergeDifferentFlags"
                       ELSE IF h2.start # h1.end + 1 THEN "MergeNotContiguous"
                       ELSE "Ok"
               IN  /\ last'.result = expected
                   /\ expected # "Ok" =>
                         /\ mapped' = mapped
                         /\ pte' = pte
                         /\ allocated_pages' = allocated_pages ]_vars

\* a merge of two handles of different address spaces and different flags
\* has failed
MergeFailureWitness ==
    /\ last.op = "merge" /\ last.result = "MergeDifferentTable"
    /\ \E h1 \in mapped, h2 \in mapped :
          /\ h1.start = last.start
          /\ h2.page_table_p4 # h1.page_table_p4 /\ h2.flags # h1.flags

\* C10: deep_copy(Some(f)) and deep_copy(None) (f = the handle's flags)
\* returning Ok yield a handle whose flags are f and whose leaf entries have
\* the flags f | PRESENT.
DeepCopyFlags ==
    [][ \A h \in mapped, opt_flags \in FlagInputs \cup {NoFlags},
           new_start \in PageNumbers :
           (DeepCopy(from_current(current_p4), h, opt_flags, new_start, 0)
            /\ last'.result = "Ok") =>
               LET f == IF opt_flags = NoFlags THEN h.flags ELSE opt_flags
               IN  \A m2 \in mapped' \ mapped :
                       /\ m2.flags = f
                       /\ \A p \in PagesOf(m2) :
                             LeafOf(pte', current_p4, p).flags = f \cup {PRESENT} ]_vars

\* the value read through the k-th page (from 0) of a handle: the load goes
\* through the active page table
ReadThrough(pt, mem, root, h, k) ==
    Read(mem, translate_page(pt, root, h.start + k).frame)

\* the frames the pages of a handle translate to
FramesThrough(pt, root, h) ==
    { translate_page(pt, root, p).frame : p \in PagesOf(h) }

\* C11: deep_copy returning Ok(m2) yields a handle over a fresh range of the
\* same size, whose content equals the content of m and whose frames are
\* disjoint from the frames of m; the range, flags, leaf entries and content
\* of m are unchanged; and a later write through one handle changes no value
\* read through another.
DeepCopyContent ==
    [][ /\ \A h \in mapped, opt_flags \in FlagInputs \cup {NoFlags},
              new_start \in PageNumbers, oom_at \in 0 .. NumPages :
              (DeepCopy(from_current(current_p4), h, opt_flags, new_start, oom_at)
               /\ last'.result = "Ok") =>
                  /\ Cardinality(mapped' \ mapped) = 1
                  /\ h \in mapped'
                  /\ \A p \in PagesOf(h) :
                        LeafOf(pte', current_p4, p) = LeafOf(pte, current_p4, p)
                  /\ \A k \in 0 .. (size_in_pages(h) - 1) :
                        ReadThrough(pte', content', current_p4, h, k)
                            = ReadThrough(pte, content, current_p4, h, k)
                  /\ \A m2 \in mapped' \ mapped :
                        /\ size_in_bytes(m2) = size_in_bytes(h)
                        /\ Units(m2) \cap allocated_pages = {}
                        /\ PagesOf(m2) \cap PagesOf(h) = {}
                        /\ NoFrame \notin FramesThrough(pte', current_p4, m2)
                        /\ FramesThrough(pte', current_p4, m2)
                               \cap FramesThrough(pte', current_p4, h) = {}
                        /\ \A k \in 0 .. (size_in_pages(h) - 1) :
                              ReadThrough(pte', content', current_p4, m2, k)
                                  = ReadThrough(pte, content, current_p4, h, k)
        /\ \A g \in mapped, k \in 0 .. (NumPages - 1), v \in Values :
              WriteSlice(g, k, v) =>
                  \A h \in mapped \ {g} :
                      \A j \in 0 .. (size_in_pages(h) - 1) :
                          ReadThrough(pte', content', current_p4, h, j)
                              = ReadThrough(pte, content, current_p4, h, j) ]_vars

\* a copy was just made of a page that holds a value
DeepCopyContentWitness ==
    /\ last.op = "deep_copy" /\ last.result = "Ok"
    /\ \E m2 \in mapped :
          /\ m2.start = last.start
          /\ ReadThrough(pte, content, current_p4, m2, 0) = 1

\* offset + length * size <= size_in_bytes, with the mathematical sum and
\* product (six limbs hold them)
Fits(h, offset, length, size) ==
    Leq(WideAdd(Pad(offset, LimbCount + 1), WideMul(length, size)),
        Pad(BytesOf(h), LimbCount + 2))

\* C12: as_type::<T>(offset) returns Ok exactly when offset + size_of::<T>()
\* <= size_in_bytes and the out-of-bounds error otherwise, and
\* as_slice::<T>(byte_offset, length) returns Ok, with that length, exactly
\* when byte_offset + length * size_of::<T>() <= size_in_bytes and the
\* out-of-bounds error otherwise, the sums and products being mathematical.
ViewBounds ==
    \A h \in mapped, offset \in Offsets, size \in TypeSizes, oc \in BOOLEAN :
        /\ as_type(h, offset, size, oc).result
               = IF Fits(h, offset, usize(1), size) THEN "Ok" ELSE "OutOfBounds"
        /\ \A length \in Lengths :
              /\ as_slice(h, offset, length, size, oc).result
                     = IF Fits(h, offset, length, size) THEN "Ok" ELSE "OutOfBounds"
              /\ as_slice(h, offset, length, size, oc).result = "Ok" =>
                     as_slice(h, offset, length, size, oc).length = length

\* C12 for the arguments whose sum and product fit in 64 bits
ViewBoundsWithoutOverflow ==
    \A h \in mapped, offset \in Offsets, size \in TypeSizes, oc \in BOOLEAN :
        /\ ~ usize_add(offset, usize(size)).overflow =>
              as_type(h, offset, size, oc).result
                  = IF Fits(h, offset, usize(1), size) THEN "Ok" ELSE "OutOfBounds"
        /\ \A length \in Lengths :
              (/\ ~ usize_mul(length, size).overflow
               /\ ~ usize_add(offset, usize_mul(length, size).value).overflow) =>
                  /\ as_slice(h, offset, length, size, oc).result
                         = IF Fits(h, offset, length, size) THEN "Ok" ELSE "OutOfBounds"
                  /\ as_slice(h, offset, length, size, oc).result = "Ok" =>
                         as_slice(h, offset, length, size, oc).length = length

\* C13: as_type_mut and as_slice_mut return the not-writable error whenever
\* the handle's current flags lack WRITABLE, for every offset and length,
\* and return a mutable view only when the flags contain WRITABLE and the
\* view lies within the bounds; the flags are those the last remap left.
MutableViews ==
    \A h \in mapped, offset \in Offsets, size \in TypeSizes, oc \in BOOLEAN :
        /\ ~ is_writable(h.flags) =>
              /\ as_type_mut(h, offset, size, oc).result = "NotWritable"
              /\ \A length \in Lengths :
                    as_slice_mut(h, offset, length, size, oc).result = "NotWritable"
        /\ as_type_mut(h, offset, size, oc).result = "Ok" =>
              is_writable(h.flags) /\ Fits(h, offset, usize(1), size)
        /\ \A length \in Lengths :
              as_slice_mut(h, offset, length, size, oc).result = "Ok" =>
                  is_writable(h.flags) /\ Fits(h, offset, length, size)

\* C13 where no sum or product of the call exceeds 64 bits: as_type_mut
\* returns the not-writable error for every offset, as_slice_mut for every
\* offset and every length whose size in bytes fits in 64 bits
MutableViewsWithoutOverflow ==
    \A h \in mapped, offset \in Offsets, size \in TypeSizes, oc \in BOOLEAN :
        /\ ~ is_writable(h.flags) =>
              /\ as_type_mut(h, offset, size, oc).result = "NotWritable"
              /\ \A length \in Lengths :
                    ~ usize_mul(length, size).overflow =>
                        as_slice_mut(h, offset, length, size, oc).result = "NotWritable"
        /\ as_type_mut(h, offset, size, oc).result = "Ok" =>
              /\ is_writable(h.flags)
              /\ ~ usize_add(offset, usize(size)).overflow =>
                     Fits(h, offset, usize(1), size)
        /\ \A length \in Lengths :
              as_slice_mut(h, offset, length, size, oc).result = "Ok" =>
                  /\ is_writable(h.flags)
                  /\ (/\ ~ usize_mul(length, size).overflow
                      /\ ~ usize_add(offset, usize_mul(length, size).value).overflow) =>
                         Fits(h, offset, length, size)

\* C14: as_func follows the handle's current flags across remap: on a handle
\* with PRESENT | NO_EXECUTE it returns the not-executable error and leaves
\* the caller's carrier as it was; on a handle that remap(PRESENT) left with
\* the flags PRESENT, as_func(offset, carrier) with offset + size_of::<F>()
\* <= size_in_bytes returns Ok and stores start_address + offset in the
\* carrier, and as_type_mut::<u64>(0) returns the not-writable error.
AsFuncFollowsFlags ==
    [][ last'.op = "as_func" =>
            \A h \in mapped, offset \in Offsets, space \in {usize(0), usize(1)},
               oc \in BOOLEAN :
                AsFunc(h, offset, space, oc) =>
                    /\ h.flags = {PRESENT, NO_EXECUTE} =>
                          /\ last'.result = "NotExecutable"
                          /\ last'.events[1].start = space
                    /\ (h.flags = {PRESENT} /\ Fits(h, offset, usize(1), FuncSize)) =>
                          /\ last'.result = "Ok"
                          /\ Pad(last'.events[1].start, LimbCount + 1)
                                 = WideAdd(start_address(h), offset)
                          /\ as_type_mut(h, usize(0), 8, oc).result = "NotWritable" ]_vars

\* as_func returned Ok on a handle that remap left with the flags PRESENT
\* and stored the address of the last function pointer of the first page in
\* a carrier that held 1
AsFuncFollowsFlagsWitness ==
    /\ last.op = "as_func" /\ last.result = "Ok"
    /\ last.events[1].end = usize(1)
    /\ \E h \in mapped :
          /\ h.start = last.start /\ h.flags = {PRESENT}
          /\ last.events[1].start = usize(h.start * PAGE_SIZE + PAGE_SIZE - 8)

\* C15: when a non-empty MappedPages or MappedHugePages is dropped while the
\* active P4 frame differs from the P4 frame of the handle, no page-table
\* entry of any address space is modified and the pages of the handle are
\* not returned to the page allocator.
DropForeignLeaks ==
    [][ \A h \in mapped :
            (/\ Drop(h) \/ DropHuge(h)
             /\ size_in_pages(h) # 0
             /\ current_p4 # h.page_table_p4) =>
                /\ pte' = pte
                /\ Units(h) \subseteq allocated_pages' ]_vars

\* C15, the page tables alone: a drop under a foreign P4 modifies no entry
DropForeignTouchesNoEntry ==
    [][ \A h \in mapped :
            (/\ Drop(h) \/ DropHuge(h)
             /\ size_in_pages(h) # 0
             /\ current_p4 # h.page_table_p4) =>
                pte' = pte ]_vars

\* the release of the pages is the last event of a drop, after every store
\* to a page-table entry
ReleaseIsLast(events) ==
    /\ Len(events) >= 1
    /\ events[Len(events)].ev = "release_pages"
    /\ \A k \in 1 .. (Len(events) - 1) : events[k].ev # "release_pages"

\* C16: on every path through the destructor the leaf entry of each page of
\* the range is cleared before that page is released to the page allocator,
\* and the pages are released before any frame is released.
DropClearsBeforeRelease ==
    [][ \A h \in mapped :
            (/\ Drop(h) \/ DropHuge(h)
             /\ size_in_pages(h) # 0) =>
                /\ ReleaseIsLast(last'.events)
                /\ \A k \in 1 .. Len(last'.events) : last'.events[k].ev # "release_frames"
                /\ \A p \in PagesOf(h) :
                      is_unused(LeafOfSize(pte', h.page_table_p4, p, h.page_size)) ]_vars

\* C16 for the drops under the P4 of the handle
DropOwnClearsBeforeRelease ==
    [][ \A h \in mapped :
            (/\ Drop(h) \/ DropHuge(h)
             /\ size_in_pages(h) # 0
             /\ current_p4 = h.page_table_p4) =>
                /\ ReleaseIsLast(last'.events)
                /\ \A k \in 1 .. Len(last'.events) : last'.events[k].ev # "release_frames"
                /\ \A p \in PagesOf(h) :
                      is_unused(LeafOfSize(pte', h.page_table_p4, p, h.page_size)) ]_vars

\* C17: when a handle made by map_allocated_pages or map_allocated_huge_pages
\* is dropped under its own P4, every frame that backed it is returned to
\* the frame allocator (deallocate_frame) by the drop.
DropReturnsFrames ==
    [][ \A h \in mapped :
            (/\ Drop(h) \/ DropHuge(h)
             /\ size_in_pages(h) # 0
             /\ current_p4 = h.page_table_p4) =>
                \A k \in DOMAIN h.frames :
                    \E j \in DOMAIN last'.events :
                        /\ last'.events[j].ev = "deallocate_frame"
                        /\ last'.events[j].start = h.frames[k] ]_vars

\* the leaf the walk of translate to a page ends in, as <<level, entry>>, or
\* level 0 when an entry on the walk is not present: the P4 entry of the active
\* table, then the entry of each level in the table the level above names
WalkLeaf(page) ==
    LET e4 == EntryAt(pte, current_p4, p4_index(page, PAGE_SIZE))
        e3 == EntryAt(pte, e4.frame, p3_index(page, PAGE_SIZE))
        e2 == EntryAt(pte, e3.frame, p2_index(page, PAGE_SIZE))
        e1 == EntryAt(pte, e2.frame, p1_index(page, PAGE_SIZE))
    IN  IF PRESENT \notin e4.flags \/ PRESENT \notin e3.flags THEN <<0, Unused>>
        ELSE IF HUGE_PAGE \in e3.flags THEN <<3, e3>>
        ELSE IF PRESENT \notin e2.flags THEN <<0, Unused>>
        ELSE IF HUGE_PAGE \in e2.flags THEN <<2, e2>>
        ELSE IF PRESENT \notin e1.flags THEN <<0, Unused>>
        ELSE <<1, e1>>

\* C18: translate of an address in a present 2 MiB leaf at P2 with aligned
\* frame F is frame F + (k >> 12) with the low 12 bits of the address, k the
\* offset in the huge page, and no P1 table is read; a present 1 GiB leaf at
\* P3 gives the same with k the offset in the 1 GiB page; a 4 KiB leaf gives
\* its frame; an entry on the walk that is not present gives None
TranslateHonoursHugeLeaves ==
    \A page \in TranslatePages, offset \in TranslateOffsets :
        LET leaf == WalkLeaf(page)
            at == translate(pte, p4_mut(from_current(current_p4), current_p4),
                            page, offset)
        IN  /\ leaf[1] = 0 => at[1] = NoFrame
            /\ leaf[1] = 1 => at = <<leaf[2].frame, offset>>
            /\ leaf[1] = 2 /\ leaf[2].frame % ENTRIES_PER_PAGE_TABLE = 0
                  => at = <<leaf[2].frame + (page % ENTRIES_PER_PAGE_TABLE), offset>>
            /\ leaf[1] = 3
               /\ leaf[2].frame % (ENTRIES_PER_PAGE_TABLE * ENTRIES_PER_PAGE_TABLE) = 0
                  => at = <<leaf[2].frame
                              + (page % (ENTRIES_PER_PAGE_TABLE * ENTRIES_PER_PAGE_TABLE)),
                            offset>>

\* an address past the first 4 KiB of a 2 MiB leaf was translated, to a frame
\* past the leaf's first, while the leaf's frame holds data that reads as a
\* present entry for the page
TranslateHonoursHugeLeavesWitness ==
    /\ last.op = "translate"
    /\ last.result = "Some"
    /\ WalkLeaf(last.start)[1] = 2
    /\ last.events[1].start = WalkLeaf(last.start)[2].frame + 3
    /\ last.events[1].end = PAGE_SIZE - 1
    /\ PRESENT \in EntryAt(pte, WalkLeaf(last.start)[2].frame, 3).flags

\* bits 48..64 of an address all equal bit 47
Canonical(a) == \A k \in 48 .. 63 : Bit(a, k) = Bit(a, 47)

\* C19: VirtualAddress::new(v) is Ok(v) exactly when bits 48..64 of v equal
\* bit 47, and an error otherwise; new_canonical(v) is canonical, keeps the
\* low 48 bits of v, is v when v is canonical, and is idempotent; new(v) is Ok
\* exactly when new_canonical(v) is v
CanonicalAddresses ==
    /\ last.op = "new" =>
          /\ last.result = "Ok" <=> Canonical(last.events[1].start)
          /\ last.result = "Ok" => last.events[1].end = last.events[1].start
          /\ last.result \in {"Ok", "Err"}
          /\ last.result = "Ok"
                <=> new_canonical(last.events[1].start) = last.events[1].start
    /\ last.op = "new_canonical" =>
          /\ Canonical(last.events[1].end)
          /\ SubSeq(last.events[1].end, 1, 3) = SubSeq(last.events[1].start, 1, 3)
          /\ Canonical(last.events[1].start)
                => last.events[1].end = last.events[1].start
          /\ new_canonical(last.events[1].end) = last.events[1].end
          /\ new(last.events[1].start).result = "Ok"
                <=> last.events[1].end = last.events[1].start

\* new_canonical was given an address with bit 47 set and bits 48..64 not all
\* set, and changed it
CanonicalAddressesWitness ==
    /\ last.op = "new_canonical"
    /\ Bit(last.events[1].start, 47) = 1
    /\ ~Canonical(last.events[1].start)
    /\ last.events[1].end # last.events[1].start
    /\ new(last.events[1].start).result = "Err"

\* C20: HugePageSize::new(s) and PageSize::new(s) are Ok exactly for
\* s = 4 KiB, s = 2 MiB, and s = 1 GiB when bit 26 of CPUID.80000001H:EDX is
\* set, and an error for every other case; huge_page_ratio of the accepted
\* sizes is 1, 512 and 262144
SupportedPageSizes ==
    last.op \in {"HugePageSize::new", "PageSize::new"} =>
        /\ last.result \in {"Ok", "Err"}
        /\ last.result = "Ok" <=>
              \/ last.events[1].start = 4096
              \/ last.events[1].start = 2097152
              \/ /\ last.events[1].start = 1073741824
                 /\ (last.events[1].end \div 67108864) % 2 = 1
        /\ last.result = "Ok" =>
              /\ last.events[2].start = last.events[1].start
              /\ last.events[1].start = 4096 => last.events[2].end = 1
              /\ last.events[1].start = 2097152 => last.events[2].end = 512
              /\ last.events[1].start = 1073741824 => last.events[2].end = 262144

\* a 1 GiB HugePageSize was made on a CPU that reports the capability
SupportedPageSizesWitness ==
    /\ last.op = "HugePageSize::new"
    /\ last.result = "Ok"
    /\ last.events[1].start = 1073741824
    /\ last.events[2].end = 262144

\* the arguments of the write_relocation that a record of the last operation
\* describes, with the target handle, the size of the value written and
\* whether the mathematical target_offset + size lies inside the target
RelocationCall(l) ==
    LET h == CHOOSE h \in mapped : h.start = l.start
        size == IF l.events[1].start \in {R_X86_64_64, R_X86_64_PC64} THEN 8 ELSE 4
    IN  [h |-> h, typ |-> l.events[1].start, addend |-> l.events[1].end,
         source |-> l.events[3].start, size |-> size,
         supported |-> l.events[1].start \in {1, 2, 4, 10, 24},
         relative |-> l.events[1].start \in {2, 4, 24},
         fits |-> Leq(WideAdd(WideAdd(l.events[2].start, l.events[2].end),
                              Pad(usize(size), LimbCount + 1)),
                      Pad(BytesOf(h), LimbCount + 2)),
         pos |-> l.events[2].start[1] + l.events[2].end[1]]

\* the physical address of byte i of the value a relocation call writes, by
\* the frames of the target handle
RelocationByte(c, i) ==
    c.h.frames[((c.pos + i) \div PAGE_SIZE) + 1] * PAGE_SIZE + ((c.pos + i) % PAGE_SIZE)

\* the value that memory holds at the place a relocation call writes
RelocationValue(mem, c) ==
    [j \in 1 .. LimbCount |->
        IF 2 * j <= c.size
        THEN Read(mem, RelocationByte(c, 2 * j - 2))
                + 256 * Read(mem, RelocationByte(c, 2 * j - 1))
        ELSE 0]

\* a relocation call c wrote its value to the memory after and left the
\* other bytes as in the memory before
RelocationWritten(c, before, after, written, target_ptr) ==
    /\ SubSeq(IF c.relative THEN WideAdd(written, target_ptr) ELSE written,
              1, c.size \div 2)
          = SubSeq(WideAdd(c.source, c.addend), 1, c.size \div 2)
    /\ \A x \in DOMAIN before \cup DOMAIN after :
          x \notin { RelocationByte(c, i) : i \in 0 .. (c.size - 1) }
             => Read(after, x) = Read(before, x)

\* the case of C21 for a relocation call c and its result
RelocationWrote(c, result, before, after) ==
    c.supported /\ is_writable(c.h.flags) /\ c.fits =>
        /\ result = "Ok"
        /\ \A written \in {RelocationValue(after, c)} :
              RelocationWritten(c, before, after, written,
                                usize(c.h.start * PAGE_SIZE + c.pos))

\* C21: write_relocation on a writable target, for a supported type and a
\* value that fits, returns Ok and leaves at target_offset_within_mp +
\* entry.offset the 4 or 8 bytes of source_vaddr + addend, less target_ptr for
\* the relative types, modulo 2^32 or 2^64; every other byte is unchanged
RelocationWrites ==
    [][last'.op = "write_relocation" =>
          \A c \in {RelocationCall(last')} :
              RelocationWrote(c, last'.result, content, content')]_vars

\* a relative 32-bit relocation was written into a loaded section: four of
\* the section's bytes were replaced, the others are as loaded
RelocationWritesWitness ==
    /\ last.op = "write_relocation"
    /\ last.result = "Ok"
    /\ last.events[1].start = R_X86_64_PC32
    /\ Cardinality({ x \in DOMAIN content : content[x] = 165 })
          = Cardinality(SectionBytes) - 4

\* the result the error cases of write_relocation are to give
RelocationError(c) ==
    IF ~ c.supported THEN "Unsupported"
    ELSE IF ~ is_writable(c.h.flags) THEN "NotWritable"
    ELSE IF ~ c.fits THEN "OutOfBounds"
    ELSE "Ok"

\* C22: write_relocation returns the unsupported-relocation error for a type
\* code other than 1, 2, 4, 10 and 24, the not-writable error for a target
\* without WRITABLE, the out-of-bounds error when the value does not fit in
\* the target, and modifies no byte in these cases
RelocationErrors ==
    [][last'.op = "write_relocation" =>
          /\ last'.result = RelocationError(RelocationCall(last'))
          /\ last'.result # "Ok" => content' = content]_vars

\* as C22, for offsets whose sums stay below 2^64
RelocationErrorsWithoutOverflow ==
    [][last'.op = "write_relocation" /\ last'.events[2].end[4] = 0 =>
          /\ last'.result = RelocationError(RelocationCall(last'))
          /\ last'.result # "Ok" => content' = content]_vars

\* C23: address_at_offset(offset) returns Some(start_address + offset) when
\* the offset lies inside the range, and None for every offset >=
\* size_in_bytes, the offset size_in_bytes and every offset on an empty range
\* included
AddressAtOffsetCovered ==
    last.op = "address_at_offset" =>
        IF last.events[2].start < (last.end + 1 - last.start) * last.events[1].start
        THEN /\ last.result = "Some"
             /\ last.events[2].end
                   = last.start * last.events[1].start + last.events[2].start
        ELSE last.result = "None"

\* as C23, but for the offset that equals size_in_bytes
AddressAtOffsetExceptEnd ==
    last.op = "address_at_offset"
      /\ last.events[2].start # (last.end + 1 - last.start) * last.events[1].start =>
        IF last.events[2].start < (last.end + 1 - last.start) * last.events[1].start
        THEN /\ last.result = "Some"
             /\ last.events[2].end
                   = last.start * last.events[1].start + last.events[2].start
        ELSE last.result = "None"

\* the places of the delimiter in a module name
Delimiters(name) == { i \in 1 .. Len(name) : name[i] = "#" }

RECURSIVE TablesAt(_, _)
TablesAt(pt, level) ==
    IF level = 4 THEN P4Frames
    ELSE { pt[x].frame :
             x \in { y \in DOMAIN pt : /\ y[1] \in TablesAt(pt, level + 1)
                                       /\ PRESENT \in pt[y].flags } }

\* C25: no entry of a P4, P3 or P2 table that points to a next-level table
\* carries NO_EXECUTE, whatever flags the callers of the mapping functions and
\* of remap passed; only leaves carry it
NoExecuteOnlyOnLeaves ==
    \A x \in DOMAIN pte :
        /\ x[1] \in TablesAt(pte, 4) \cup TablesAt(pte, 3) \cup TablesAt(pte, 2)
        /\ PRESENT \in pte[x].flags
        /\ HUGE_PAGE \notin pte[x].flags
        => NO_EXECUTE \notin pte[x].flags

\* a page is mapped with NO_EXECUTE on its P1 entry, below three present
\* table entries
NoExecuteOnlyOnLeavesWitness ==
    \E h \in mapped :
        /\ h.kind = "MappedPages"
        /\ NO_EXECUTE \in LeafOf(pte, current_p4, h.start).flags
        /\ PRESENT \in LeafOf(pte, current_p4, h.start).flags
        /\ \A e \in AncestorsOf(pte, current_p4, h.start) : PRESENT \in e.flags

\* C26: a present entry has HUGE_PAGE exactly when it is a leaf at P3 or at
\* P2: no entry that points to a next-level table and no P1 entry has it,
\* whatever flags the callers passed, and the leaf of a live huge mapping has it,
\* after remap too
HugeFlagOnlyOnHugeLeaves ==
    /\ \A x \in DOMAIN pte :
          PRESENT \in pte[x].flags /\ HUGE_PAGE \in pte[x].flags =>
             /\ x[1] \in TablesAt(pte, 3) \cup TablesAt(pte, 2)
             /\ \E h \in mapped :
                   /\ h.kind = "MappedHugePages" /\ h.page_size # PAGE_SIZE
                   /\ pte[x].frame \in { h.frames[k] : k \in DOMAIN h.frames }
    /\ \A h \in mapped :
          h.kind = "MappedHugePages" /\ h.page_size # PAGE_SIZE =>
             \A page \in PagesOf(h) :
                LET e == LeafOfSize(pte, current_p4, page, h.page_size)
                IN  PRESENT \in e.flags => HUGE_PAGE \in e.flags

\* C27: MappedHugePages::remap with new flags on a live 2 MiB or 1 GiB handle
\* returns Ok only after it rewrote the P2 or P3 leaf of each huge page to the
\* same frame with new_flags | PRESENT, translate of the range being as before
\* (a missing leaf gives the not-mapped error, not Ok)
HugeRemapRewritesLeaf ==
    [][last'.op = "remap_huge" /\ last'.result = "Ok" =>
          \A h \in mapped \ mapped', h2 \in mapped' \ mapped :
              h.kind = "MappedHugePages" /\ h.page_size # PAGE_SIZE
              /\ h2 = [h EXCEPT !.flags = h2.flags] =>
                  \A page \in PagesOf(h) :
                      /\ PRESENT \in LeafOfSize(pte, current_p4, page, h.page_size).flags
                      /\ LeafOfSize(pte', current_p4, page, h.page_size)
                            = [frame |-> LeafOfSize(pte, current_p4, page,
                                                    h.page_size).frame,
                               flags |-> h2.flags \cup {PRESENT}]
                      /\ translate_page(pte', current_p4, FirstPageOf(page, h.page_size))
                            = translate_page(pte, current_p4,
                                             FirstPageOf(page, h.page_size))]_vars

\* the value read through the k-th 4 KiB page of the region of a huge handle
\* (NoFrame: the access traps)
HugeFrameAt(pt, root, h, k) ==
    translate_page(pt, root, h.start * huge_page_ratio(h.page_size) + k).frame

TlbEvents(l) ==
    SelectSeq(l.events, LAMBDA e : e.ev \in {"store", "invlpg", "shootdown"})

\* the events of an operation on the pages l.start .. l.end follow the
\* protocol: for each page a store to its leaf entry and then invlpg of the
\* page, and after the last page one call of the shootdown callback with the
\* whole range
TlbProtocol(l) ==
    LET n == l.end + 1 - l.start
    IN  /\ Len(TlbEvents(l)) = 2 * n + 1
        /\ \A k \in 1 .. n :
              /\ TlbEvents(l)[2 * k - 1] = Event("store", l.start + k - 1, l.start + k - 1)
              /\ TlbEvents(l)[2 * k] = Event("invlpg", l.start + k - 1, l.start + k - 1)
        /\ TlbEvents(l)[2 * n + 1] = Event("shootdown", l.start, l.end)

\* the step is a remap that changed the flags of a handle, or the unmap of a
\* handle's drop, of one of the kinds given by its operations, and returned Ok
TlbStep(remaps, drops) ==
    /\ last'.result = "Ok"
    /\ \/ last'.op \in remaps /\ mapped' # mapped
       \/ last'.op \in drops

\* C29: with the shootdown callback registered, every remap with changed
\* flags and every unmap of a non-empty MappedPages or MappedHugePages stores
\* to the leaf entry of each page, executes invlpg on the page after the
\* store, and then invokes the callback exactly once with the whole range
TlbCoherence ==
    [][TlbStep({"remap", "remap_huge"}, {"drop", "drop_huge"}) => TlbProtocol(last')]_vars

\* the protocol of C29 for MappedPages alone
TlbCoherenceMappedPages ==
    [][TlbStep({"remap"}, {"drop"}) => TlbProtocol(last')]_vars

\* a remap or an unmap of a MappedPages of two pages has run the protocol
TlbCoherenceMappedPagesWitness ==
    /\ last.op \in {"remap", "drop"} /\ last.result = "Ok"
    /\ last.end > last.start
    /\ TlbProtocol(last)

\* translate and the assertion of the walk agree with the expected address
\* for the addresses in a present 1 GiB leaf; shift: the number of bits by
\* which p2_index is shifted before p1_index is or-ed in.  An address is
\* <<frame, offset>> for frame * PAGE_SIZE + offset, offset below PAGE_SIZE,
\* so that leaf_frame.start + (x << PAGE_SHIFT) + page_offset is
\* <<leaf_frame + x, page_offset>>.
GiantLeafTranslates(shift) ==
    \A page \in TranslatePages, offset \in TranslateOffsets :
        LET leaf_frame == WalkLeaf(page)[2].frame
            root == p4_mut(from_current(current_p4), current_p4)
        IN  WalkLeaf(page)[1] = 3 =>
                IF leaf_frame % (ENTRIES_PER_PAGE_TABLE * ENTRIES_PER_PAGE_TABLE) # 0
                THEN translate_page(pte, root, page).abort
                ELSE /\ ~ translate_page(pte, root, page).abort
                     /\ translate(pte, root, page, offset)
                           = << leaf_frame + p2_index(page, PAGE_SIZE) * (2 ^ shift)
                                           + p1_index(page, PAGE_SIZE),
                                offset >>

\* C30: for a present 1 GiB leaf at P3 with frame leaf_frame, translate(v) is
\* leaf_frame.start + ((p2_index << 18 | p1_index) << PAGE_SHIFT) + page_offset
\* for every v covered by the leaf, and the walk aborts when leaf_frame.number
\* is not a multiple of 512 * 512
GiantLeafShift18 == GiantLeafTranslates(18)

\* C30 as the code computes it: p2_index is shifted by 9 bits, the physical
\* address is leaf_frame.start + ((p2_index << 9 | p1_index) << PAGE_SHIFT)
\* + page_offset, and the walk aborts for a misaligned leaf frame
GiantLeafShift9 == GiantLeafTranslates(9)

\* an address with p2_index 2 and p1_index 5 in an aligned 1 GiB leaf was
\* translated, to the frame 2 * 512 + 5 past the leaf's
GiantLeafShift9Witness ==
    /\ last.op = "translate" /\ last.result = "Some"
    /\ WalkLeaf(last.start)[1] = 3
    /\ p2_index(last.start, PAGE_SIZE) = 2 /\ p1_index(last.start, PAGE_SIZE) = 5
    /\ last.events[1].start
          = WalkLeaf(last.start)[2].frame + 2 * ENTRIES_PER_PAGE_TABLE + 5
    /\ last.events[1].end = PAGE_SIZE - 1

\* a walk into a 1 GiB leaf whose frame is not 1 GiB aligned has aborted
GiantLeafAbortWitness ==
    /\ last.op = "translate" /\ last.result = "Panic"
    /\ WalkLeaf(last.start)[1] = 3

\* the sum or difference of the operands of the last operation, saturated
SaturatedResult(l) ==
    IF l.op \in {"VirtualAddress + usize", "VirtualAddress + VirtualAddress",
                 "PhysicalAddress + usize", "PhysicalAddress + PhysicalAddress"}
    THEN saturating_add(l.events[1].start, l.events[1].end)
    ELSE saturating_sub(l.events[1].start, l.events[1].end)

\* the result of an operation of ops on a VirtualAddress is the canonical
\* address of the saturated sum or difference, and every PhysicalAddress that
\* an operation of ops produced has bits 52..64 zero
ArithmeticCanonical(ops) ==
    (last.op \in ops /\ last.result = "Ok") =>
        /\ last.op \in {"VirtualAddress + usize", "VirtualAddress - usize",
                        "VirtualAddress + VirtualAddress",
                        "VirtualAddress - VirtualAddress"} =>
              /\ Canonical(last.events[2].start)
              /\ last.events[2].start = new_canonical(SaturatedResult(last))
        /\ last.op \in {"PhysicalAddress::new", "PhysicalAddress::new_canonical",
                        "PhysicalAddress + usize", "PhysicalAddress - usize",
                        "PhysicalAddress + PhysicalAddress",
                        "PhysicalAddress - PhysicalAddress"} =>
              get_bits(last.events[2].start, 52, 64) = 0

\* the operations with a usize operand, and the two constructors
UsizeForms ==
    {"VirtualAddress + usize", "VirtualAddress - usize", "PhysicalAddress::new",
     "PhysicalAddress::new_canonical", "PhysicalAddress + usize", "PhysicalAddress - usize"}

\* the operations on two addresses
AddressForms ==
    {"VirtualAddress + VirtualAddress", "VirtualAddress - VirtualAddress",
     "PhysicalAddress + PhysicalAddress", "PhysicalAddress - PhysicalAddress"}

\* C31: every addition and subtraction on a VirtualAddress, with a usize and
\* with another VirtualAddress, gives the canonical address of the saturated
\* sum or difference, and every PhysicalAddress made by new, new_canonical or
\* an addition or subtraction has bits 52..64 zero
AddressArithmetic == ArithmeticCanonical(UsizeForms \cup AddressForms)

\* C31 for the operations with a usize operand and the constructors
AddressArithmeticUsize == ArithmeticCanonical(UsizeForms)

\* an addition of a usize to a VirtualAddress whose sum has bit 47 set and
\* bits 48..64 clear gave a different, canonical address
AddressArithmeticUsizeWitness ==
    /\ last.op = "VirtualAddress + usize"
    /\ ~ Canonical(saturating_add(last.events[1].start, last.events[1].end))
    /\ Canonical(last.events[2].start)

\* the frames that the present entries of the given tables refer to
ChildTables(pt, tables) ==
    { pt[x].frame : x \in { y \in DOMAIN pt : y[1] \in tables /\ PRESENT \in pt[y].flags } }

\* the tables of the address space rooted at a P4 frame: the P4 table and
\* its P3, P2 and P1 tables
TablesOf(pt, root) ==
    {root} \cup ChildTables(pt, {root})
           \cup ChildTables(pt, ChildTables(pt, {root}))
           \cup ChildTables(pt, ChildTables(pt, ChildTables(pt, {root})))

\* the entries that a step wrote: those that are new or differ afterwards
WrittenEntries == { x \in DOMAIN pte' : x \notin DOMAIN pte \/ pte[x] # pte'[x] }

\* C32: every entry that a map or a remap returning Ok wrote belongs to the
\* address space rooted at the P4 frame of the handle, which for a map is the
\* target_p4 of the Mapper, also when that frame is not the active P4; so the
\* handle a map returns is labelled with the table its entries were written to
MapperWritesTargetP4 ==
    [][ (last'.op \in {"map", "map_to", "remap"} /\ last'.result = "Ok") =>
            \A h \in mapped' \ mapped :
                /\ \A x \in WrittenEntries : x[1] \in TablesOf(pte', h.page_table_p4)
                /\ last'.op # "remap" =>
                      \A page \in h.start .. h.end :
                          translate_page(pte', h.page_table_p4, page).frame # NoFrame ]_vars

\* what the code does in place of C32: every entry written belongs to the
\* address space of the active P4 frame, whatever the Mapper's target_p4
MapperWritesActiveP4 ==
    [][ (last'.op \in {"map", "map_to", "remap"} /\ last'.result = "Ok") =>
            \A x \in WrittenEntries : x[1] \in TablesOf(pte', current_p4) ]_vars

\* a handle labelled with the P4 frame that is not active is alive and its
\* page translates in the active address space
MapperWritesActiveP4Witness ==
    \E h \in mapped :
        /\ h.page_table_p4 # current_p4
        /\ last.op = "map" /\ last.start = h.start
        /\ translate_page(pte, current_p4, h.start).frame # NoFrame

\* the number of regions of a crate
RegionCount(crate) ==
    Cardinality({ k \in {"text_pages", "rodata_pages", "data_pages"} :
                    crate[k] # NoRange })

\* C34: LoadedCrate::deep_copy always returns, Ok or an error, and never
\* waits for ever for a lock that the calling thread holds itself, for every
\* crate that has a text, a rodata or a data region and for every section
\* with an internal dependency that names the section itself as its source
CrateDeepCopyReturns ==
    last.op = "LoadedCrate::deep_copy" => last.result # "Deadlock"

\* what the code does in place of C34: deep_copy returns for the crate
\* without regions alone, and waits for the lock of the first region that
\* the crate has, which deep_copy_mp holds already
CrateDeepCopyBlocks ==
    last.op = "LoadedCrate::deep_copy" =>
        IF RegionCount(last.events[1].start) = 0 THEN last.result = "Ok"
        ELSE /\ last.result = "Deadlock"
             /\ last.events[1].end = NoCrate

\* deep_copy was called on a crate with a data region and a section whose
\* internal dependency names the section itself, and waits for the lock
CrateDeepCopyBlocksWitness ==
    /\ last.op = "LoadedCrate::deep_copy" /\ last.result = "Deadlock"
    /\ last.events[1].start.data_pages # NoRange
    /\ \E i \in DOMAIN last.events[1].start.sections :
          /\ Len(last.events[1].start.sections[i].internal_dependencies) = 1
          /\ last.events[1].start.sections[i].internal_dependencies[1].source_sec_shndx = i

\* C40: LoadedSection::copy_section_data_to always returns, Ok or an error,
\* without waiting for ever, for every pair of a source and a destination
\* section, two sections in the same shared region included
SectionCopyReturns ==
    last.op = "copy_section_data_to" => last.result # "Deadlock"

\* what the code does in place of C40: the call waits for ever exactly when
\* the two sections lie in the same region and the region is writable, and
\* it returns Ok for two sections of one size in two regions
SectionCopyBlocks ==
    last.op = "copy_section_data_to" =>
        LET self == last.events[1].start
            destination_section == last.events[1].end
        IN  /\ last.result = "Deadlock" <=>
                  /\ self.mapped_pages = destination_section.mapped_pages
                  /\ is_writable(destination_section.mapped_pages.flags)
            /\ (/\ self.mapped_pages # destination_section.mapped_pages
                /\ is_writable(destination_section.mapped_pages.flags)
                /\ LoadedSection_size(self) = LoadedSection_size(destination_section))
                  => last.result = "Ok"

\* the data of a section was copied from one region to another, and a call
\* on two sections of one writable region is what a run can end with
SectionCopyBlocksWitness ==
    /\ last.op = "copy_section_data_to" /\ last.result = "Ok"
    /\ last.events[1].start.mapped_pages # last.events[1].end.mapped_pages
    /\ Read(content, last.events[1].end.mapped_pages.frames[1] * PAGE_SIZE
                         + last.events[1].end.mapped_pages_offset) = 165

\* the live handles whose range, in the address space of root, holds the
\* 4 KiB page
CoveringHandles(root, page) ==
    { h \in mapped : /\ h.page_table_p4 = root
                     /\ h.page_size = PAGE_SIZE
                     /\ page \in PagesOf(h) }

\* C39: in every reachable state, after any sequence of map, map_to,
\* map_huge, remap, merge, deep_copy and drop, failing calls and drops under
\* another P4 included, no page that was returned to the page allocator has
\* a present leaf entry in the page table it was mapped into: every present
\* leaf entry is covered by exactly one live handle.
PresentLeafIsCovered ==
    \A root \in P4Frames, page \in PageNumbers :
        PRESENT \in LeafOf(pte, root, page).flags =>
            /\ <<PAGE_SIZE, page>> \in allocated_pages
            /\ Cardinality(CoveringHandles(root, page)) = 1

\* what the code keeps in place of C39, in one address space: a state where
\* every present leaf entry is covered by exactly one live handle is left
\* only by a map, map_to, map_huge or deep_copy that fails after its loop
\* wrote an entry; every other call, every drop included, leads to such a
\* state again
LeavesCoveredUnlessMapFails ==
    [][ (/\ PresentLeafIsCovered
         /\ last'.result \notin {"AlreadyMapped", "OutOfMemory"})
            => PresentLeafIsCovered' ]_vars

\* a handle was dropped, its leaf entries are cleared and its pages
\* released, while the pages of another live handle are still mapped
LeavesCoveredUnlessMapFailsWitness ==
    /\ last.op = "drop" /\ last.result = "Ok"
    /\ PresentLeafIsCovered
    /\ <<PAGE_SIZE, last.start>> \notin allocated_pages
    /\ \E page \in PageNumbers : PRESENT \in LeafOf(pte, current_p4, page).flags

====
